---- MODULE Spec2Model ----
(***************************************************************************)
(* joblin: a persistent job queue stored in one SQLite table.              *)
(*                                                                         *)
(* The model is the `job` table shared by several Queue handles, SQLite's  *)
(* AUTOINCREMENT counter, the storage write lock that BEGIN IMMEDIATE      *)
(* takes, and each handle's position inside a lock transaction.  Every     *)
(* Queue method of src/src/joblin/queue.py is an operator on the table     *)
(* (its SQL statement) and an action that applies it.                      *)
(*                                                                         *)
(* Times are small naturals.  SQL NULL / Python None in a column is NULL;  *)
(* a method returning None returns the record None.                        *)
(***************************************************************************)
EXTENDS Integers, Sequences, FiniteSets, TLC

\* ---------------------------------------------------------------- bounds
MaxJobs == 2          \* rows ever inserted (ids 1..MaxJobs)
MaxTime == 1          \* timestamps are 0..MaxTime
MaxVersion == 2       \* schema versions with a migration script are 0..MaxVersion

NULL == -1            \* SQL NULL, Python None in an optional column or argument
None == [none |-> TRUE]   \* Python None as a method's return value
Bool(b) == [bool |-> b]   \* a bool as a method's return value
Count(n) == [int |-> n]     \* an int as a method's return value
Handles == {"h1", "h2"}   \* Queue handles (connections) on the same storage
NoHandle == "nobody"
Time == 0..MaxTime
OptTime == Time \cup {NULL}
Data == {"payload"}
StartsAfter == -1..MaxTime    \* add_job_from_now's starts_after: any number, negative too
JobIds == 1..MaxJobs

VARIABLES
    job,              \* the committed job table: id -> row
    sqlite_sequence,  \* AUTOINCREMENT: the largest id ever assigned
    writer,           \* the handle holding the storage write lock, or NoHandle
    pc,               \* per handle: "idle", or its place in a lock transaction
    call,             \* per handle: the lock call in progress
    locks,            \* history: per row, the lock calls that reported success
                      \* since the row was last unlocked
    last,             \* history (SpecApi): the call that returned most recently
    worker,           \* SpecNaive: per handle, the caller's local variables
    drained,          \* history (SpecDrain): the lock_next_job calls that returned
    held,             \* SpecJob: per handle, the Job object the caller holds
    schema,           \* the storage's schema: the scripts applied, the stored version
    migrator,         \* the run of run_migrations in progress, or the last one
    stop_ev,          \* SpecRun: per runner, its stop event
    completed_by,     \* history (SpecRun): per job id, the runners that completed it
    migrators         \* SpecConnect: per handle, its run of run_migrations

vars == <<job, sqlite_sequence, writer, pc, call, locks, last, worker, drained,
          held, schema, migrator, stop_ev, completed_by, migrators>>
\* What the Queue's methods never touch: the Job objects handed out and the
\* schema that connect() migrated before the Queue was made.
objects == <<held, schema, migrator, stop_ev, completed_by, migrators>>
\* ... nor the callers' own state and its history.
callers == <<worker, drained, objects>>

\* ------------------------------------------------------------ the Job row
Max(a, b) == IF a >= b THEN a ELSE b

\* Job(self, **row): the snapshot handed to the caller.
Job(store, id) ==
    [id |-> id,
     data |-> store[id].data,
     created_at |-> store[id].created_at,
     starts_at |-> store[id].starts_at,
     expires_at |-> store[id].expires_at,
     completed_at |-> store[id].completed_at,
     locked_at |-> store[id].locked_at]

\* "if now is None: now = self.time()"
Default(arg, t) == IF arg = NULL THEN t ELSE arg

\* Scheduler (__init__.py): "created_at = created_at or self.time()".  Python's
\* `or` takes the right-hand side when the left is None and also when it is 0.
DefaultOr(arg, t) == IF arg = NULL \/ arg = 0 THEN t ELSE arg

\* The table with the first CHECK only.
CheckCreatedBeforeStart(created_at, starts_at, expires_at) == created_at <= starts_at

\* CHECK (created_at <= starts_at), CHECK (expires_at IS NULL OR starts_at <= expires_at)
CheckConstraints(created_at, starts_at, expires_at) ==
    /\ created_at <= starts_at
    /\ (expires_at = NULL \/ starts_at <= expires_at)

\* ------------------------------------------------------------ SQL queries
\* The pending WHERE clause with "? <= expires_at".
WherePendingAtExpiry(row, now) ==
    /\ row.completed_at = NULL
    /\ (row.expires_at = NULL \/ now <= row.expires_at)

\* WHERE completed_at IS NULL AND (expires_at IS NULL OR ? < expires_at)
WherePending(row, now) ==
    /\ row.completed_at = NULL
    /\ (row.expires_at = NULL \/ now < row.expires_at)

\* The next-job WHERE clause without "AND locked_at IS NULL".
WhereNextAnyLock(row, now) ==
    /\ row.completed_at = NULL
    /\ (row.expires_at = NULL \/ now < row.expires_at)

\* ... AND locked_at IS NULL
WhereNext(row, now) ==
    /\ WherePending(row, now)
    /\ row.locked_at = NULL

\* ORDER BY id
OrderById(store, a, b) == a < b

\* ORDER BY starts_at, id
OrderBy(store, a, b) ==
    \/ store[a].starts_at < store[b].starts_at
    \/ (store[a].starts_at = store[b].starts_at /\ a < b)

\* SELECT ... WHERE <next> ORDER BY starts_at, id LIMIT 1: the id, or NULL for no row
SelectNext(store, now) ==
    LET rows == {id \in DOMAIN store : WhereNext(store[id], now)}
    IN  IF rows = {} THEN NULL
        ELSE CHOOSE id \in rows : \A o \in rows \ {id} : OrderBy(store, id, o)

\* UPDATE job SET locked_at = ? WHERE id = ?
UpdateLockedAt(store, id, locked_at) ==
    IF id \in DOMAIN store THEN [store EXCEPT ![id].locked_at = locked_at] ELSE store

\* ------------------------------------------------- single-statement methods
\* Each is its statement on the table: [store |-> the table after, ret |-> the result].

\* get_job_by_id hiding the rows that are completed or locked.
get_job_by_id_open(store, job_id) ==
    IF /\ job_id \in DOMAIN store
       /\ store[job_id].completed_at = NULL
       /\ store[job_id].locked_at = NULL
    THEN Job(store, job_id)
    ELSE None

get_job_by_id(store, job_id) ==
    IF job_id \in DOMAIN store THEN Job(store, job_id) ELSE None

get_next_job(store, now) ==
    LET id == SelectNext(store, now)
    IN  IF id = NULL THEN None ELSE Job(store, id)

\* get_next_job_delay returning row[1] - now as it is.
get_next_job_delay_unclamped(store, now) ==
    LET id == SelectNext(store, now)
    IN  IF id = NULL THEN None
        ELSE [id |-> id, delay |-> store[id].starts_at - now]

get_next_job_delay(store, now) ==
    LET id == SelectNext(store, now)
    IN  IF id = NULL THEN None
        ELSE [id |-> id, delay |-> Max(0, store[id].starts_at - now)]

\* count_pending_jobs with get_next_job's WHERE clause.
count_unlocked_jobs(store, now) ==
    Cardinality({id \in DOMAIN store : WhereNext(store[id], now)})

count_pending_jobs(store, now) ==
    Cardinality({id \in DOMAIN store : WherePending(store[id], now)})

\* unlock_job reporting whether the row was locked.
unlock_job_if_locked(store, job_id) ==
    [store |-> UpdateLockedAt(store, job_id, NULL),
     ret |-> job_id \in DOMAIN store /\ store[job_id].locked_at /= NULL]

\* unlock_job clearing completed_at with the lock, which the statement does not do.
unlock_job_uncompleting(store, job_id) ==
    [store |-> IF job_id \in DOMAIN store
               THEN [store EXCEPT ![job_id].locked_at = NULL,
                                  ![job_id].completed_at = NULL]
               ELSE store,
     ret |-> job_id \in DOMAIN store]

unlock_job(store, job_id) ==
    [store |-> UpdateLockedAt(store, job_id, NULL),
     ret |-> job_id \in DOMAIN store]

\* complete_job with "AND completed_at IS NULL" in its WHERE clause.
complete_job_once(store, job_id, completed_at) ==
    LET found == job_id \in DOMAIN store /\ store[job_id].completed_at = NULL
    IN  [store |-> IF found
                   THEN [store EXCEPT ![job_id].completed_at = completed_at]
                   ELSE store,
         ret |-> found]

\* complete_job releasing the lock with the completion, which the statement
\* does not do.
complete_job_and_unlock(store, job_id, completed_at) ==
    [store |-> IF job_id \in DOMAIN store
               THEN [store EXCEPT ![job_id].completed_at = completed_at,
                                  ![job_id].locked_at = NULL]
               ELSE store,
     ret |-> job_id \in DOMAIN store]

complete_job(store, job_id, completed_at) ==
    [store |-> IF job_id \in DOMAIN store
               THEN [store EXCEPT ![job_id].completed_at = completed_at]
               ELSE store,
     ret |-> job_id \in DOMAIN store]

\* delete_job with "AND locked_at IS NULL" in its WHERE clause.
delete_job_unlocked(store, job_id) ==
    LET found == job_id \in DOMAIN store /\ store[job_id].locked_at = NULL
    IN  [store |-> IF found THEN [id \in DOMAIN store \ {job_id} |-> store[id]] ELSE store,
         ret |-> found]

delete_job(store, job_id) ==
    [store |-> [id \in DOMAIN store \ {job_id} |-> store[id]],
     ret |-> job_id \in DOMAIN store]

\* delete_completed_jobs with "AND locked_at IS NULL" in its WHERE clause.
delete_completed_unlocked_jobs(store) ==
    LET gone == {id \in DOMAIN store :
                    store[id].completed_at /= NULL /\ store[id].locked_at = NULL}
    IN  [store |-> [id \in DOMAIN store \ gone |-> store[id]],
         ret |-> Cardinality(gone)]

delete_completed_jobs(store) ==
    LET gone == {id \in DOMAIN store : store[id].completed_at /= NULL}
    IN  [store |-> [id \in DOMAIN store \ gone |-> store[id]],
         ret |-> Cardinality(gone)]

\* delete_expired_jobs without "completed_at IS NULL" in its WHERE clause.
delete_expired_jobs_completed_too(store, now) ==
    LET gone == {id \in DOMAIN store :
                    store[id].expires_at /= NULL /\ now >= store[id].expires_at}
    IN  [store |-> [id \in DOMAIN store \ gone |-> store[id]],
         ret |-> Cardinality(gone)]

delete_expired_jobs(store, now) ==
    LET gone == {id \in DOMAIN store :
                    /\ store[id].completed_at = NULL
                    /\ store[id].expires_at /= NULL
                    /\ now >= store[id].expires_at}
    IN  [store |-> [id \in DOMAIN store \ gone |-> store[id]],
         ret |-> Cardinality(gone)]


\* add_job on a table whose id is a plain INTEGER PRIMARY KEY: the new id is one
\* more than the largest id in the table.
add_job_rowid(store, seq, data, created_at, starts_at, expires_at) ==
    IF CheckConstraints(created_at, starts_at, expires_at)
    THEN LET job_id == IF DOMAIN store = {} THEN 1
                       ELSE 1 + CHOOSE m \in DOMAIN store : \A o \in DOMAIN store : o <= m
             row == [data |-> data,
                     created_at |-> created_at,
                     starts_at |-> starts_at,
                     expires_at |-> expires_at,
                     completed_at |-> NULL,
                     locked_at |-> NULL]
         IN  [store |-> (job_id :> row) @@ store,
              seq |-> job_id,
              ret |-> [id |-> job_id] @@ row,
              raised |-> ""]
    ELSE [store |-> store, seq |-> seq, ret |-> None, raised |-> "IntegrityError"]

\* INSERT INTO job (data, created_at, starts_at, expires_at) VALUES (?, ?, ?, ?) RETURNING id
\* on the table and the AUTOINCREMENT counter; a violated CHECK raises and inserts nothing.
add_job(store, seq, data, created_at, starts_at, expires_at) ==
    IF CheckConstraints(created_at, starts_at, expires_at)
    THEN LET job_id == seq + 1
             row == [data |-> data,
                     created_at |-> created_at,
                     starts_at |-> starts_at,
                     expires_at |-> expires_at,
                     completed_at |-> NULL,
                     locked_at |-> NULL]
         IN  [store |-> (job_id :> row) @@ store,
              seq |-> job_id,
              ret |-> [id |-> job_id,
                       data |-> data,
                       created_at |-> created_at,
                       starts_at |-> starts_at,
                       expires_at |-> expires_at,
                       completed_at |-> NULL,
                       locked_at |-> NULL],
              raised |-> ""]
    ELSE [store |-> store, seq |-> seq, ret |-> None, raised |-> "IntegrityError"]

\* add_job_from_now passing its offsets on as absolute times.
add_job_from_now_absolute(store, seq, data, created_at, starts_after, expires_after) ==
    add_job(store, seq, data, created_at, starts_after, expires_after)

\* add_job_from_now: starts_at = created_at + starts_after,
\* expires_at = None if expires_after is None else created_at + expires_after.
add_job_from_now(store, seq, data, created_at, starts_after, expires_after) ==
    add_job(store, seq, data, created_at,
            created_at + starts_after,
            IF expires_after = NULL THEN NULL ELSE created_at + expires_after)

\* ------------------------------------------------------- the Job's methods
\* Each method forwards to the Queue's method with the object's id; the object
\* itself is not assigned to.

\* Job.complete writing the completion time into the object as well.
complete_refreshing(self, store, completed_at) ==
    LET r == complete_job(store, self.id, completed_at)
    IN  [self |-> IF r.ret THEN [self EXCEPT !.completed_at = completed_at] ELSE self,
         store |-> r.store,
         ret |-> r.ret]

complete(self, store, completed_at) ==
    LET r == complete_job(store, self.id, completed_at)
    IN  [self |-> self, store |-> r.store, ret |-> r.ret]

delete(self, store) ==
    LET r == delete_job(store, self.id)
    IN  [self |-> self, store |-> r.store, ret |-> r.ret]

unlock(self, store) ==
    LET r == unlock_job(store, self.id)
    IN  [self |-> self, store |-> r.store, ret |-> r.ret]

\* Job.delay (job.py): never negative.
delay(self, time) == Max(0, self.starts_at - time)

\* Job.get_seconds_until_start (__init__.py): the plain difference.
get_seconds_until_start(self, time) == self.starts_at - time

\* ------------------------------------------------------------- migrations
\* The known migrations in ascending order of version, each script named by its
\* version; version -1 is the empty script of an empty storage.
MIGRATIONS == [i \in 1..(MaxVersion + 2) |-> i - 2]

\* A storage's schema: the scripts whose effects it holds, and the value of the
\* 'version' row of job_schema (NULL while there is no job_schema table).
Schema(applied, version) == [applied |-> applied, version |-> version]
\* Nothing created yet.
EmptySchema == Schema({}, NULL)
\* Every known script applied: what connect() leaves behind.
LatestSchema == Schema(0..MaxVersion, MaxVersion)
\* The storages run_migrations may find: empty, a pre-versioning job table with
\* no job_schema, any known version, and a version written by a later release.
StartSchemas ==
    {EmptySchema, Schema({0}, NULL)} \cup {Schema(0..v, v) : v \in 0..(MaxVersion + 1)}

version_exists(version) == \E i \in DOMAIN MIGRATIONS : MIGRATIONS[i] = version

\* after_version with ">=": the script of the given version is run again.
after_version_inclusive(version) ==
    SelectSeq(MIGRATIONS, LAMBDA m : m >= version)

after_version(version) ==
    SelectSeq(MIGRATIONS, LAMBDA m : m > version)

\* get_migrations starting over from the first script when no version matches.
get_migrations_restart(version) ==
    LET hit == {i \in DOMAIN MIGRATIONS : MIGRATIONS[i] = version}
        i == IF hit = {} THEN 0 ELSE CHOOSE k \in hit : \A o \in hit : k <= o
    IN  SubSeq(MIGRATIONS, i + 1, Len(MIGRATIONS))

\* _SchedulerMigrator.get_migrations: the scripts after the matching version;
\* without a match the loop ends with i = len(MIGRATIONS) and nothing is left.
get_migrations(version) ==
    LET hit == {i \in DOMAIN MIGRATIONS : MIGRATIONS[i] = version}
        i == IF hit = {} THEN Len(MIGRATIONS) ELSE CHOOSE k \in hit : \A o \in hit : k <= o
    IN  SubSeq(MIGRATIONS, i + 1, Len(MIGRATIONS))

\* get_version reading an absent job_schema as an empty storage, without looking
\* for the job table.
get_version_without_job_table(s) ==
    IF 1 \in s.applied THEN s.version ELSE -1

\* get_version: the 'version' row; without job_schema, 0 when the job table is
\* there and -1 otherwise.  (The script that creates job_schema inserts the row,
\* so the row is there whenever the table is.)
get_version(s) ==
    IF 1 \in s.applied THEN s.version
    ELSE IF 0 \in s.applied THEN 0
    ELSE -1

\* conn.executescript(script): script 0 creates the job table, script 1 creates
\* job_schema and inserts 'version' 0 unless the row is there (INSERT OR IGNORE);
\* the empty script does nothing.
executescript(s, version) ==
    IF version < 0 THEN s
    ELSE Schema(s.applied \cup {version},
                IF version = 1 /\ s.version = NULL THEN 0 ELSE s.version)

\* "UPDATE job_schema SET value = ? WHERE key = 'version'"
UpdateVersion(s, version) == [s EXCEPT !.version = version]

\* The connection that connect() migrates before the Queue is made.
Connecting == "connect"

\* No run of run_migrations yet on storage s.
NoRun(s) ==
    [pc |-> "idle", cls |-> "none", detected |-> NULL, version |-> NULL,
     todo |-> <<>>, ran |-> <<>>, in_tx |-> FALSE, update |-> FALSE,
     start |-> [schema |-> s, job |-> <<>>], result |-> "none"]

\* Script 1 statement by statement, as executescript runs it on a connection in
\* autocommit mode: "CREATE TABLE IF NOT EXISTS job_schema" (after the two index
\* statements), and then "INSERT OR IGNORE INTO job_schema ... ('version', 0)".
\* Between the two the table is there without its 'version' row.
create_job_schema(s) == Schema(s.applied \cup {1}, s.version)
insert_version(s) == [s EXCEPT !.version = IF @ = NULL THEN 0 ELSE @]

\* get_version's "if row is None: raise RuntimeError(...)": job_schema is there
\* and holds no 'version' row.
missing_version_key(s) == 1 \in s.applied /\ s.version = NULL

\* A handle whose connect() has not called run_migrations yet.
NotConnected ==
    [pc |-> "idle", detected |-> NULL, version |-> NULL, todo |-> <<>>, stmt |-> 0,
     ran |-> <<>>, result |-> "none"]

\* ------------------------------------------------------------------ state
NoCall == [op |-> "none", job_id |-> NULL, now |-> NULL,
           row |-> None, write |-> FALSE, ret |-> None]
\* `last` keeps with a call the storage as the call found it: the job table and
\* sqlite_sequence before the call.
NoLast == [op |-> "none", h |-> NoHandle, args |-> None, ret |-> None, raised |-> "",
           job |-> <<>>, sqlite_sequence |-> 0]
\* Spec keeps no call history: there `last` stays Unrecorded.
Unrecorded == [op |-> "unrecorded", h |-> NoHandle, args |-> None, ret |-> None, raised |-> "",
               job |-> <<>>, sqlite_sequence |-> 0]
\* A caller that holds no job.
NoJob == [job_id |-> NULL, state |-> "idle"]

Init ==
    /\ job = [id \in {} |-> None]
    /\ sqlite_sequence = 0
    /\ writer = NoHandle
    /\ pc = [h \in Handles |-> "idle"]
    /\ call = [h \in Handles |-> NoCall]
    /\ locks = [id \in {} |-> 0]
    /\ last = Unrecorded
    /\ worker = [h \in Handles |-> NoJob]
    /\ drained = <<>>
    /\ held = [h \in Handles |-> None]
    /\ schema = LatestSchema
    /\ migrator = NoRun(LatestSchema)
    /\ stop_ev = [h \in Handles |-> FALSE]
    /\ completed_by = [id \in JobIds |-> {}]
    /\ migrators = [h \in Handles |-> NotConnected]

InitApi ==
    /\ job = [id \in {} |-> None]
    /\ sqlite_sequence = 0
    /\ writer = NoHandle
    /\ pc = [h \in Handles |-> "idle"]
    /\ call = [h \in Handles |-> NoCall]
    /\ locks = [id \in {} |-> 0]
    /\ last = NoLast
    /\ worker = [h \in Handles |-> NoJob]
    /\ drained = <<>>
    /\ held = [h \in Handles |-> None]
    /\ schema = LatestSchema
    /\ migrator = NoRun(LatestSchema)
    /\ stop_ev = [h \in Handles |-> FALSE]
    /\ completed_by = [id \in JobIds |-> {}]
    /\ migrators = [h \in Handles |-> NotConnected]

\* The history of successful locks follows the table's rows.
LocksOn(store, n) == [id \in DOMAIN store |-> IF id \in DOMAIN n THEN n[id] ELSE 0]

\* The call's record in `last`: what it returned, or the exception it raised.
Returned(op, h, args, ret) ==
    IF last.op = "unrecorded" THEN Unrecorded
    ELSE [op |-> op, h |-> h, args |-> args, ret |-> ret, raised |-> "",
          job |-> job, sqlite_sequence |-> sqlite_sequence]
Raised(op, h, args, exception) ==
    IF last.op = "unrecorded" THEN Unrecorded
    ELSE [op |-> op, h |-> h, args |-> args, ret |-> None, raised |-> exception,
          job |-> job, sqlite_sequence |-> sqlite_sequence]

\* A statement run outside a transaction (autocommit) writes under the storage
\* write lock, which it takes and releases within the statement.
AutocommitWrite(h) == pc[h] = "idle" /\ writer = NoHandle
\* WAL: a read is never blocked by a writer and sees the committed table.
AutocommitRead(h) == pc[h] = "idle"

\* ---------------------------------------------------------------- actions
AddJob(h, data, created_at, starts_at, expires_at, t) ==
    /\ AutocommitWrite(h)
    /\ sqlite_sequence < MaxJobs
    /\ LET c == Default(created_at, t)
           s == Default(starts_at, c)
           r == add_job(job, sqlite_sequence, data, c, s, expires_at)
       IN  /\ job' = r.store
           /\ sqlite_sequence' = r.seq
           /\ locks' = LocksOn(r.store, locks)
           /\ last' = LET args == [data |-> data, created_at |-> c,
                                    starts_at |-> s, expires_at |-> expires_at]
                      IN  IF r.raised = "" THEN Returned("add_job", h, args, r.ret)
                          ELSE Raised("add_job", h, args, r.raised)
    /\ UNCHANGED <<writer, pc, call, callers>>

AddJobFromNow(h, data, starts_after, expires_after, created_at, t) ==
    /\ AutocommitWrite(h)
    /\ sqlite_sequence < MaxJobs
    /\ LET c == Default(created_at, t)
           r == add_job_from_now(job, sqlite_sequence, data, c, starts_after, expires_after)
       IN  /\ c + starts_after <= MaxTime
           /\ expires_after = NULL \/ c + expires_after <= MaxTime
           /\ job' = r.store
           /\ sqlite_sequence' = r.seq
           /\ locks' = LocksOn(r.store, locks)
           /\ last' = LET args == [data |-> data, created_at |-> c,
                                    starts_after |-> starts_after,
                                    expires_after |-> expires_after]
                      IN  IF r.raised = "" THEN Returned("add_job_from_now", h, args, r.ret)
                          ELSE Raised("add_job_from_now", h, args, r.raised)
    /\ UNCHANGED <<writer, pc, call, callers>>

GetJobById(h, job_id) ==
    /\ AutocommitRead(h)
    /\ last' = Returned("get_job_by_id", h, [job_id |-> job_id], get_job_by_id(job, job_id))
    /\ UNCHANGED <<job, sqlite_sequence, writer, pc, call, locks, callers>>

GetNextJob(h, now, t) ==
    /\ AutocommitRead(h)
    /\ LET n == Default(now, t)
       IN  last' = Returned("get_next_job", h, [now |-> n], get_next_job(job, n))
    /\ UNCHANGED <<job, sqlite_sequence, writer, pc, call, locks, callers>>

GetNextJobDelay(h, now, t) ==
    /\ AutocommitRead(h)
    /\ LET n == Default(now, t)
       IN  last' = Returned("get_next_job_delay", h, [now |-> n], get_next_job_delay(job, n))
    /\ UNCHANGED <<job, sqlite_sequence, writer, pc, call, locks, callers>>

CountPendingJobs(h, now, t) ==
    /\ AutocommitRead(h)
    /\ LET n == Default(now, t)
       IN  last' = Returned("count_pending_jobs", h, [now |-> n], Count(count_pending_jobs(job, n)))
    /\ UNCHANGED <<job, sqlite_sequence, writer, pc, call, locks, callers>>

UnlockJob(h, job_id) ==
    /\ AutocommitWrite(h)
    /\ LET r == unlock_job(job, job_id)
       IN  /\ job' = r.store
           /\ locks' = [id \in DOMAIN locks |-> IF id = job_id THEN 0 ELSE locks[id]]
           /\ last' = Returned("unlock_job", h, [job_id |-> job_id], Bool(r.ret))
    /\ UNCHANGED <<sqlite_sequence, writer, pc, call, callers>>

CompleteJob(h, job_id, completed_at, t) ==
    /\ AutocommitWrite(h)
    /\ LET c == Default(completed_at, t)
           r == complete_job(job, job_id, c)
       IN  /\ job' = r.store
           /\ last' = Returned("complete_job", h, [job_id |-> job_id, completed_at |-> c],
                            Bool(r.ret))
    /\ UNCHANGED <<sqlite_sequence, writer, pc, call, locks, callers>>

DeleteJob(h, job_id) ==
    /\ AutocommitWrite(h)
    /\ LET r == delete_job(job, job_id)
       IN  /\ job' = r.store
           /\ locks' = LocksOn(r.store, locks)
           /\ last' = Returned("delete_job", h, [job_id |-> job_id], Bool(r.ret))
    /\ UNCHANGED <<sqlite_sequence, writer, pc, call, callers>>

DeleteCompletedJobs(h) ==
    /\ AutocommitWrite(h)
    /\ LET r == delete_completed_jobs(job)
       IN  /\ job' = r.store
           /\ locks' = LocksOn(r.store, locks)
           /\ last' = Returned("delete_completed_jobs", h, None, Count(r.ret))
    /\ UNCHANGED <<sqlite_sequence, writer, pc, call, callers>>

DeleteExpiredJobs(h, now, t) ==
    /\ AutocommitWrite(h)
    /\ LET n == Default(now, t)
           r == delete_expired_jobs(job, n)
       IN  /\ job' = r.store
           /\ locks' = LocksOn(r.store, locks)
           /\ last' = Returned("delete_expired_jobs", h, [now |-> n], Count(r.ret))
    /\ UNCHANGED <<sqlite_sequence, writer, pc, call, callers>>


\* ------------------------------------------------------ lock transactions
\* lock_job, lock_next_job and lock_next_job_delay run "with self._begin('IMMEDIATE')":
\* BEGIN IMMEDIATE, one SELECT, an early return or one UPDATE, then COMMIT (ROLLBACK
\* when the body raises).  Each statement is a step of its handle.
LockOps == {"lock_job", "lock_next_job", "lock_next_job_delay"}

\* A BEGIN that takes no write lock: the transaction starts beside any other.
BeginDeferred(h) == writer' = writer

\* conn.execute("BEGIN IMMEDIATE"): waits for the storage write lock and takes it.
BeginImmediate(h) == writer = NoHandle /\ writer' = h

\* A commit or rollback that leaves the write lock with the handle.
EndTransactionKeepingLock(h) == writer' = writer

\* self.conn.commit() / self.conn.rollback(): the write lock is released.
EndTransaction(h) == writer' = (IF writer = h THEN NoHandle ELSE writer)

Begin(h, op, job_id, now, t) ==
    /\ pc[h] = "idle"
    /\ BeginImmediate(h)
    /\ pc' = [pc EXCEPT ![h] = "select"]
    /\ call' = [call EXCEPT ![h] = [op |-> op,
                                    job_id |-> job_id,
                                    now |-> Default(now, t),
                                    row |-> None,
                                    write |-> FALSE,
                                    ret |-> None]]
    /\ last' = (IF last.op = "unrecorded" THEN Unrecorded ELSE NoLast)
    /\ UNCHANGED <<job, sqlite_sequence, locks, callers>>

\* SelectLockJob without "if row[0] is not None: return False".
SelectLockJobNoLockedCheck(h) ==
    /\ pc[h] = "select"
    /\ call[h].op = "lock_job"
    /\ LET id == call[h].job_id
           row == IF id \in DOMAIN job THEN [locked_at |-> job[id].locked_at] ELSE None
       IN  IF row = None
           THEN /\ call' = [call EXCEPT ![h].ret = Bool(FALSE)]
                /\ pc' = [pc EXCEPT ![h] = "commit"]
           ELSE /\ call' = [call EXCEPT ![h].row = row]
                /\ pc' = [pc EXCEPT ![h] = "update"]
    /\ UNCHANGED <<job, sqlite_sequence, writer, locks, last, callers>>

\* SelectLockJob without "if row is None: return False".
SelectLockJobNoRowCheck(h) ==
    /\ pc[h] = "select"
    /\ call[h].op = "lock_job"
    /\ LET id == call[h].job_id
           row == IF id \in DOMAIN job THEN [locked_at |-> job[id].locked_at] ELSE None
       IN  IF row /= None /\ row.locked_at /= NULL
           THEN /\ call' = [call EXCEPT ![h].row = row, ![h].ret = Bool(FALSE)]
                /\ pc' = [pc EXCEPT ![h] = "commit"]
           ELSE /\ call' = [call EXCEPT ![h].row = row]
                /\ pc' = [pc EXCEPT ![h] = "update"]
    /\ UNCHANGED <<job, sqlite_sequence, writer, locks, last, callers>>

\* lock_job: SELECT locked_at FROM job WHERE id = ?, then the two early returns.
\* SelectLockJob refusing a row that is completed or expired, as the next-job
\* query does.
SelectLockJobPendingOnly(h) ==
    /\ pc[h] = "select"
    /\ call[h].op = "lock_job"
    /\ LET id == call[h].job_id
           row == IF id \in DOMAIN job THEN [locked_at |-> job[id].locked_at] ELSE None
       IN  IF row = None
           THEN /\ call' = [call EXCEPT ![h].ret = Bool(FALSE)]
                /\ pc' = [pc EXCEPT ![h] = "commit"]
           ELSE IF row.locked_at /= NULL \/ ~WherePending(job[id], call[h].now)
           THEN /\ call' = [call EXCEPT ![h].row = row, ![h].ret = Bool(FALSE)]
                /\ pc' = [pc EXCEPT ![h] = "commit"]
           ELSE /\ call' = [call EXCEPT ![h].row = row]
                /\ pc' = [pc EXCEPT ![h] = "update"]
    /\ UNCHANGED <<job, sqlite_sequence, writer, locks, last, callers>>

SelectLockJob(h) ==
    /\ pc[h] = "select"
    /\ call[h].op = "lock_job"
    /\ LET id == call[h].job_id
           row == IF id \in DOMAIN job THEN [locked_at |-> job[id].locked_at] ELSE None
       IN  IF row = None
           THEN /\ call' = [call EXCEPT ![h].ret = Bool(FALSE)]
                /\ pc' = [pc EXCEPT ![h] = "commit"]
           ELSE IF row.locked_at /= NULL
           THEN /\ call' = [call EXCEPT ![h].row = row, ![h].ret = Bool(FALSE)]
                /\ pc' = [pc EXCEPT ![h] = "commit"]
           ELSE /\ call' = [call EXCEPT ![h].row = row]
                /\ pc' = [pc EXCEPT ![h] = "update"]
    /\ UNCHANGED <<job, sqlite_sequence, writer, locks, last, callers>>

\* lock_next_job: SELECT * ... LIMIT 1; lock_next_job_delay: SELECT id, starts_at ... LIMIT 1.
SelectLockNext(h) ==
    /\ pc[h] = "select"
    /\ call[h].op \in {"lock_next_job", "lock_next_job_delay"}
    /\ LET id == SelectNext(job, call[h].now)
       IN  IF id = NULL
           THEN /\ call' = [call EXCEPT ![h].ret = None]
                /\ pc' = [pc EXCEPT ![h] = "commit"]
           ELSE /\ call' = [call EXCEPT ![h].job_id = id,
                                        ![h].row = IF call[h].op = "lock_next_job"
                                                   THEN Job(job, id)
                                                   ELSE [id |-> id, starts_at |-> job[id].starts_at]]
                /\ pc' = [pc EXCEPT ![h] = "update"]
    /\ UNCHANGED <<job, sqlite_sequence, writer, locks, last, callers>>

\* LockResult without "job.locked_at = now": lock_next_job hands out the row as it
\* was selected.
LockResultAsSelected(c) ==
    IF c.op = "lock_job" THEN Bool(TRUE)
    ELSE IF c.op = "lock_next_job" THEN c.row
    ELSE [id |-> c.row.id, delay |-> Max(0, c.row.starts_at - c.now)]

\* What the call returns after its UPDATE.
LockResult(c) ==
    IF c.op = "lock_job" THEN Bool(TRUE)
    ELSE IF c.op = "lock_next_job" THEN [c.row EXCEPT !.locked_at = c.now]
    ELSE [id |-> c.row.id, delay |-> Max(0, c.row.starts_at - c.now)]

\* An UPDATE after which the body runs the UPDATE again, without end.
UpdateAgain(h) ==
    /\ pc[h] = "update"
    /\ call' = [call EXCEPT ![h].write = TRUE, ![h].ret = LockResult(call[h])]
    /\ pc' = pc
    /\ UNCHANGED <<job, sqlite_sequence, writer, locks, last, callers>>

\* c.execute("UPDATE job SET locked_at = ? WHERE id = ?", ...): written inside the
\* transaction, visible to the other handles from COMMIT on.
Update(h) ==
    /\ pc[h] = "update"
    /\ call' = [call EXCEPT ![h].write = TRUE, ![h].ret = LockResult(call[h])]
    /\ pc' = [pc EXCEPT ![h] = "commit"]
    /\ UNCHANGED <<job, sqlite_sequence, writer, locks, last, callers>>

CallArgs(c) == IF c.op = "lock_job" THEN [job_id |-> c.job_id, locked_at |-> c.now]
               ELSE [now |-> c.now]

\* The with-block is left normally: COMMIT, and the method returns.
CommitTransaction(h) ==
    /\ pc[h] = "commit"
    /\ LET c == call[h]
           locked == c.write /\ c.job_id \in DOMAIN job
       IN  /\ job' = (IF c.write THEN UpdateLockedAt(job, c.job_id, c.now) ELSE job)
           /\ locks' = (IF locked
                          THEN [locks EXCEPT ![c.job_id] = @ + 1]
                          ELSE locks)
           /\ last' = Returned(c.op, h, CallArgs(c), c.ret)
    /\ EndTransaction(h)
    /\ pc' = [pc EXCEPT ![h] = "idle"]
    /\ call' = [call EXCEPT ![h] = NoCall]
    /\ UNCHANGED sqlite_sequence

Commit(h) == CommitTransaction(h) /\ UNCHANGED callers

\* A failure that leaves the transaction's UPDATE in the table.
RollbackKeepingUpdate(h) ==
    /\ pc[h] \in {"select", "update", "commit"}
    /\ EndTransaction(h)
    /\ job' = (IF call[h].write THEN UpdateLockedAt(job, call[h].job_id, call[h].now) ELSE job)
    /\ last' = Raised(call[h].op, h, CallArgs(call[h]), "OperationalError")
    /\ pc' = [pc EXCEPT ![h] = "idle"]
    /\ call' = [call EXCEPT ![h] = NoCall]
    /\ UNCHANGED <<sqlite_sequence, locks, callers>>

\* A statement of the body raises (a storage failure): ROLLBACK, and the error goes
\* to the caller.
Rollback(h) ==
    /\ pc[h] \in {"select", "update", "commit"}
    /\ EndTransaction(h)
    /\ last' = Raised(call[h].op, h, CallArgs(call[h]), "OperationalError")
    /\ pc' = [pc EXCEPT ![h] = "idle"]
    /\ call' = [call EXCEPT ![h] = NoCall]
    /\ UNCHANGED <<job, sqlite_sequence, locks, callers>>

\* ---------------------------------------------------------- specification
\* time_func() is called only when the time argument is omitted.
TimeFunc(arg) == IF arg = NULL THEN Time ELSE {0}

Calls(h) ==
    \/ \E d \in Data, c \in OptTime, s \in OptTime, e \in OptTime :
           \E t \in TimeFunc(c) : AddJob(h, d, c, s, e, t)
    \/ \E d \in Data, sa \in StartsAfter, ea \in OptTime, c \in OptTime :
           \E t \in TimeFunc(c) : AddJobFromNow(h, d, sa, ea, c, t)
    \/ \E id \in JobIds : GetJobById(h, id)
    \/ \E now \in OptTime : \E t \in TimeFunc(now) : GetNextJob(h, now, t)
    \/ \E now \in OptTime : \E t \in TimeFunc(now) : GetNextJobDelay(h, now, t)
    \/ \E now \in OptTime : \E t \in TimeFunc(now) : CountPendingJobs(h, now, t)
    \/ \E id \in JobIds : UnlockJob(h, id)
    \/ \E id \in JobIds, c \in OptTime : \E t \in TimeFunc(c) : CompleteJob(h, id, c, t)
    \/ \E id \in JobIds : DeleteJob(h, id)
    \/ DeleteCompletedJobs(h)
    \/ \E now \in OptTime : \E t \in TimeFunc(now) : DeleteExpiredJobs(h, now, t)
    \/ \E id \in JobIds, now \in OptTime : \E t \in TimeFunc(now) :
           Begin(h, "lock_job", id, now, t)
    \/ \E now \in OptTime : \E t \in TimeFunc(now) : Begin(h, "lock_next_job", NULL, now, t)
    \/ \E now \in OptTime : \E t \in TimeFunc(now) : Begin(h, "lock_next_job_delay", NULL, now, t)
    \/ SelectLockJob(h)
    \/ SelectLockNext(h)
    \/ Update(h)
    \/ Commit(h)
    \/ Rollback(h)

\* Spec: every handle calls any method at any time.
Next == \E h \in Handles : Calls(h)
Spec == Init /\ [][Next]_vars

\* SpecApi: one handle's calls, each recorded in `last` when it returns.
NextApi == Calls("h1")
SpecApi == InitApi /\ [][NextApi]_vars

\* SpecNaive: workers that fetch and lock in two calls,
\*     job = queue.get_next_job(); if job is not None and queue.lock_job(job.id): ...
\* worker[h] is the worker's job id and how far it got with it.
NaiveFetch(h, t) ==
    /\ AutocommitRead(h)
    /\ worker[h].state = "idle"
    /\ LET r == get_next_job(job, t)
       IN  /\ r /= None
           /\ worker' = [worker EXCEPT ![h] = [job_id |-> r.id, state |-> "fetched"]]
           /\ last' = Returned("get_next_job", h, [now |-> t], r)
    /\ UNCHANGED <<job, sqlite_sequence, writer, pc, call, locks, drained, objects>>

NaiveLock(h, t) ==
    /\ worker[h].state = "fetched"
    /\ Begin(h, "lock_job", worker[h].job_id, NULL, t)

\* lock_job returns: the worker keeps the job when it got True.
NaiveCommit(h) ==
    /\ CommitTransaction(h)
    /\ worker' = [worker EXCEPT ![h].state = IF call[h].write THEN "locked" ELSE "refused"]
    /\ UNCHANGED <<drained, objects>>

\* The worker that holds the lock runs the job and completes it.
NaiveComplete(h, t) ==
    /\ AutocommitWrite(h)
    /\ worker[h].state = "locked"
    /\ LET r == complete_job(job, worker[h].job_id, t)
       IN  /\ job' = r.store
           /\ last' = Returned("complete_job", h,
                               [job_id |-> worker[h].job_id, completed_at |-> t], Bool(r.ret))
    /\ worker' = [worker EXCEPT ![h] = NoJob]
    /\ UNCHANGED <<sqlite_sequence, writer, pc, call, locks, drained, objects>>

\* The worker that was refused drops the job and fetches again.
NaiveSkip(h) ==
    /\ pc[h] = "idle"
    /\ worker[h].state = "refused"
    /\ worker' = [worker EXCEPT ![h] = NoJob]
    /\ UNCHANGED <<job, sqlite_sequence, writer, pc, call, locks, last, drained, objects>>

NextNaive ==
    \E h \in Handles :
        \/ \E d \in Data, c \in OptTime, s \in OptTime, e \in OptTime :
               \E t \in TimeFunc(c) : AddJob(h, d, c, s, e, t)
        \/ \E t \in Time : NaiveFetch(h, t)
        \/ \E t \in Time : NaiveLock(h, t)
        \/ SelectLockJob(h)
        \/ Update(h)
        \/ NaiveCommit(h)
        \/ Rollback(h)
        \/ \E t \in Time : NaiveComplete(h, t)
        \/ NaiveSkip(h)
SpecNaive == Init /\ [][NextNaive]_vars

\* SpecJob: one caller adds jobs that do not expire, takes Job objects from
\* get_job_by_id and calls their methods; `held` is the object in the caller's
\* hands.
JobFetch(h, job_id) ==
    /\ AutocommitRead(h)
    /\ get_job_by_id(job, job_id) /= None
    /\ held' = [held EXCEPT ![h] = get_job_by_id(job, job_id)]
    /\ last' = Returned("get_job_by_id", h, [job_id |-> job_id], get_job_by_id(job, job_id))
    /\ UNCHANGED <<job, sqlite_sequence, writer, pc, call, locks, worker, drained,
                   schema, migrator, stop_ev, completed_by, migrators>>

JobComplete(h, completed_at, t) ==
    /\ AutocommitWrite(h)
    /\ held[h] /= None
    /\ LET c == Default(completed_at, t)
           r == complete(held[h], job, c)
       IN  /\ job' = r.store
           /\ held' = [held EXCEPT ![h] = r.self]
           /\ last' = Returned("Job.complete", h,
                               [job_id |-> held[h].id, completed_at |-> c], Bool(r.ret))
    /\ UNCHANGED <<sqlite_sequence, writer, pc, call, locks, worker, drained,
                   schema, migrator, stop_ev, completed_by, migrators>>

JobDelete(h) ==
    /\ AutocommitWrite(h)
    /\ held[h] /= None
    /\ LET r == delete(held[h], job)
       IN  /\ job' = r.store
           /\ locks' = LocksOn(r.store, locks)
           /\ held' = [held EXCEPT ![h] = r.self]
           /\ last' = Returned("Job.delete", h, [job_id |-> held[h].id], Bool(r.ret))
    /\ UNCHANGED <<sqlite_sequence, writer, pc, call, worker, drained, schema, migrator, stop_ev, completed_by, migrators>>

JobUnlock(h) ==
    /\ AutocommitWrite(h)
    /\ held[h] /= None
    /\ LET r == unlock(held[h], job)
       IN  /\ job' = r.store
           /\ locks' = [id \in DOMAIN locks |-> IF id = held[h].id THEN 0 ELSE locks[id]]
           /\ held' = [held EXCEPT ![h] = r.self]
           /\ last' = Returned("Job.unlock", h, [job_id |-> held[h].id], Bool(r.ret))
    /\ UNCHANGED <<sqlite_sequence, writer, pc, call, worker, drained, schema, migrator, stop_ev, completed_by, migrators>>

\* Job.lock: Queue.lock_job with the object's id.
JobLock(h, locked_at, t) ==
    /\ held[h] /= None
    /\ Begin(h, "lock_job", held[h].id, locked_at, t)

JobDelay(h, t) ==
    /\ pc[h] = "idle"
    /\ held[h] /= None
    /\ last' = Returned("Job.delay", h, [time |-> t], Count(delay(held[h], t)))
    /\ UNCHANGED <<job, sqlite_sequence, writer, pc, call, locks, callers>>

JobGetSecondsUntilStart(h, t) ==
    /\ pc[h] = "idle"
    /\ held[h] /= None
    /\ last' = Returned("Job.get_seconds_until_start", h, [time |-> t],
                        Count(get_seconds_until_start(held[h], t)))
    /\ UNCHANGED <<job, sqlite_sequence, writer, pc, call, locks, callers>>

NextJob ==
    \E h \in {"h1"} :
        \/ \E d \in Data, s \in OptTime : \E t \in Time : AddJob(h, d, NULL, s, NULL, t)
        \/ \E id \in JobIds : JobFetch(h, id)
        \/ \E c \in OptTime : \E t \in TimeFunc(c) : JobComplete(h, c, t)
        \/ JobDelete(h)
        \/ JobUnlock(h)
        \/ \E now \in OptTime : \E t \in TimeFunc(now) : JobLock(h, now, t)
        \/ SelectLockJob(h)
        \/ Update(h)
        \/ Commit(h)
        \/ Rollback(h)
        \/ \E t \in Time : JobDelay(h, t)
        \/ \E t \in Time : JobGetSecondsUntilStart(h, t)
SpecJob == InitApi /\ [][NextJob]_vars

\* SpecDrain: the table is filled (add_job, complete_job), then the handles only
\* call lock_next_job; `drained` lists these calls in the order they returned.
FillAdd(h, data, created_at, starts_at, expires_at, t) ==
    /\ drained = <<>>
    /\ AddJob(h, data, created_at, starts_at, expires_at, t)

FillComplete(h, job_id, completed_at, t) ==
    /\ drained = <<>>
    /\ CompleteJob(h, job_id, completed_at, t)

DrainCall(h, now, t) ==
    /\ Len(drained) < MaxJobs + 1
    /\ Begin(h, "lock_next_job", NULL, now, t)

DrainCommit(h) ==
    /\ CommitTransaction(h)
    /\ drained' = Append(drained, [h |-> h, ret |-> call[h].ret, now |-> call[h].now])
    /\ UNCHANGED <<worker, objects>>

NextDrain ==
    \E h \in Handles :
        \/ \E d \in Data, c \in OptTime, s \in OptTime, e \in OptTime :
               \E t \in TimeFunc(c) : FillAdd(h, d, c, s, e, t)
        \/ \E id \in JobIds, c \in OptTime : \E t \in TimeFunc(c) : FillComplete(h, id, c, t)
        \/ \E now \in OptTime : \E t \in TimeFunc(now) : DrainCall(h, now, t)
        \/ SelectLockNext(h)
        \/ Update(h)
        \/ DrainCommit(h)
        \/ Rollback(h)
SpecDrain == Init /\ [][NextDrain]_vars

\* SpecTime: one caller passes or omits the time arguments of add_job and
\* complete_job, of the Queue (queue.py) and of the Scheduler (__init__.py), while
\* the time source stands at t.  `last` keeps the arguments as they were passed
\* and the time source's value.
QueueAddJob(h, data, created_at, starts_at, expires_at, t) ==
    /\ AutocommitWrite(h)
    /\ sqlite_sequence < MaxJobs
    /\ LET c == Default(created_at, t)
           s == Default(starts_at, c)
           r == add_job(job, sqlite_sequence, data, c, s, expires_at)
           args == [created_at |-> created_at, starts_at |-> starts_at, time |-> t]
       IN  /\ job' = r.store
           /\ sqlite_sequence' = r.seq
           /\ locks' = LocksOn(r.store, locks)
           /\ last' = IF r.raised = "" THEN Returned("Queue.add_job", h, args, r.ret)
                      ELSE Raised("Queue.add_job", h, args, r.raised)
    /\ UNCHANGED <<writer, pc, call, callers>>

SchedulerAddJob(h, data, created_at, starts_at, expires_at, t) ==
    /\ AutocommitWrite(h)
    /\ sqlite_sequence < MaxJobs
    /\ LET c == DefaultOr(created_at, t)
           s == DefaultOr(starts_at, c)
           r == add_job(job, sqlite_sequence, data, c, s, expires_at)
           args == [created_at |-> created_at, starts_at |-> starts_at, time |-> t]
       IN  /\ job' = r.store
           /\ sqlite_sequence' = r.seq
           /\ locks' = LocksOn(r.store, locks)
           /\ last' = IF r.raised = "" THEN Returned("Scheduler.add_job", h, args, r.ret)
                      ELSE Raised("Scheduler.add_job", h, args, r.raised)
    /\ UNCHANGED <<writer, pc, call, callers>>

QueueCompleteJob(h, job_id, completed_at, t) ==
    /\ AutocommitWrite(h)
    /\ LET r == complete_job(job, job_id, Default(completed_at, t))
       IN  /\ job' = r.store
           /\ last' = Returned("Queue.complete_job", h,
                               [job_id |-> job_id, completed_at |-> completed_at, time |-> t],
                               Bool(r.ret))
    /\ UNCHANGED <<sqlite_sequence, writer, pc, call, locks, callers>>

SchedulerCompleteJob(h, job_id, completed_at, t) ==
    /\ AutocommitWrite(h)
    /\ LET r == complete_job(job, job_id, DefaultOr(completed_at, t))
       IN  /\ job' = r.store
           /\ last' = Returned("Scheduler.complete_job", h,
                               [job_id |-> job_id, completed_at |-> completed_at, time |-> t],
                               Bool(r.ret))
    /\ UNCHANGED <<sqlite_sequence, writer, pc, call, locks, callers>>

NextTime ==
    \E h \in {"h1"}, t \in Time :
        \/ \E d \in Data, c \in OptTime, s \in OptTime, e \in OptTime :
               QueueAddJob(h, d, c, s, e, t)
        \/ \E d \in Data, c \in OptTime, s \in OptTime, e \in OptTime :
               SchedulerAddJob(h, d, c, s, e, t)
        \/ \E id \in JobIds, c \in OptTime : QueueCompleteJob(h, id, c, t)
        \/ \E id \in JobIds, c \in OptTime : SchedulerCompleteJob(h, id, c, t)
SpecTime == InitApi /\ [][NextTime]_vars

\* SpecHold: two handles lock jobs and remember the job they locked until they
\* unlock it themselves; each may also call unlock_job and complete_job with any
\* id.  worker[h] is the job that handle h takes itself to hold.
HoldBegin(h, op, job_id, now, t) ==
    /\ worker[h] = NoJob
    /\ Begin(h, op, job_id, now, t)

\* The lock call returns: on success the handle holds the job.
HoldCommit(h) ==
    /\ CommitTransaction(h)
    /\ worker' = [worker EXCEPT ![h] = IF call[h].write /\ call[h].job_id \in DOMAIN job
                                       THEN [job_id |-> call[h].job_id, state |-> "locked"]
                                       ELSE @]
    /\ UNCHANGED <<drained, objects>>

\* unlock_job(job_id) by handle h, for its own job or for any other.
HoldUnlock(h, job_id) ==
    /\ AutocommitWrite(h)
    /\ LET r == unlock_job(job, job_id)
       IN  /\ job' = r.store
           /\ locks' = [id \in DOMAIN locks |-> IF id = job_id THEN 0 ELSE locks[id]]
           /\ last' = Returned("unlock_job", h, [job_id |-> job_id], Bool(r.ret))
    /\ worker' = [worker EXCEPT ![h] = IF @.job_id = job_id THEN NoJob ELSE @]
    /\ UNCHANGED <<sqlite_sequence, writer, pc, call, drained, objects>>

NextHold ==
    \E h \in Handles :
        \/ \E d \in Data, s \in OptTime : \E t \in Time : AddJob(h, d, NULL, s, NULL, t)
        \/ \E id \in JobIds : \E t \in Time : HoldBegin(h, "lock_job", id, NULL, t)
        \/ \E t \in Time : HoldBegin(h, "lock_next_job", NULL, NULL, t)
        \/ SelectLockJob(h)
        \/ SelectLockNext(h)
        \/ Update(h)
        \/ HoldCommit(h)
        \/ Rollback(h)
        \/ \E id \in JobIds : HoldUnlock(h, id)
        \/ \E id \in JobIds : \E t \in Time : CompleteJob(h, id, NULL, t)
        \/ \E t \in Time : GetNextJob(h, NULL, t)
SpecHold == InitApi /\ [][NextHold]_vars

\* SpecLive: two handles call the lock methods under fair scheduling.  A call
\* first waits at BEGIN IMMEDIATE for the write lock; sqlite3's busy timeout ends
\* the wait with OperationalError when the lock stays taken.  worker[h] is the
\* call handle h has made and not yet got back from.
LiveCall(h, op, job_id, t) ==
    /\ pc[h] = "idle"
    /\ worker[h] = NoJob
    /\ worker' = [worker EXCEPT ![h] = [job_id |-> job_id, state |-> op, now |-> t]]
    /\ UNCHANGED <<job, sqlite_sequence, writer, pc, call, locks, last, drained, objects>>

\* BEGIN IMMEDIATE gets the write lock.
LiveBegin(h) ==
    /\ worker[h].state \in LockOps
    /\ Begin(h, worker[h].state, worker[h].job_id, worker[h].now, worker[h].now)

\* BEGIN IMMEDIATE gives up: "database is locked" after the busy timeout.
LiveBusy(h) ==
    /\ worker[h].state \in LockOps
    /\ pc[h] = "idle"
    /\ writer /= NoHandle
    /\ worker' = [worker EXCEPT ![h] = NoJob]
    /\ UNCHANGED <<job, sqlite_sequence, writer, pc, call, locks, last, drained, objects>>

LiveCommit(h) ==
    /\ CommitTransaction(h)
    /\ worker' = [worker EXCEPT ![h] = NoJob]
    /\ UNCHANGED <<drained, objects>>

\* The body raises: ROLLBACK, and the call is over.
LiveRollback(h) ==
    /\ pc[h] \in {"select", "update", "commit"}
    /\ EndTransaction(h)
    /\ last' = Raised(call[h].op, h, CallArgs(call[h]), "OperationalError")
    /\ pc' = [pc EXCEPT ![h] = "idle"]
    /\ call' = [call EXCEPT ![h] = NoCall]
    /\ worker' = [worker EXCEPT ![h] = NoJob]
    /\ UNCHANGED <<job, sqlite_sequence, locks, drained, objects>>

\* The steps a handle takes by itself once it is inside its transaction.
LiveBody(h) == SelectLockJob(h) \/ SelectLockNext(h) \/ Update(h) \/ LiveCommit(h)

NextLive ==
    \E h \in Handles :
        \/ \E d \in Data : \E t \in Time : AddJob(h, d, NULL, NULL, NULL, t)
        \/ \E id \in JobIds : UnlockJob(h, id)
        \/ \E id \in JobIds, t \in Time : LiveCall(h, "lock_job", id, t)
        \/ \E op \in {"lock_next_job", "lock_next_job_delay"}, t \in Time :
               LiveCall(h, op, NULL, t)
        \/ LiveBegin(h)
        \/ LiveBusy(h)
        \/ SelectLockJob(h)
        \/ SelectLockNext(h)
        \/ Update(h)
        \/ LiveCommit(h)
        \/ LiveRollback(h)
\* Fairness: a running handle goes on running (its thread is not suspended for
\* ever), and a waiting BEGIN IMMEDIATE ends, with the lock or with the timeout.
SpecLive ==
    /\ Init
    /\ [][NextLive]_vars
    /\ \A h \in Handles :
           /\ WF_vars(LiveBegin(h) \/ LiveBusy(h))
           /\ WF_vars(LiveBody(h))

\* SpecRun: the runners of examples/threads.py, one per handle, each in its own
\* thread.  worker[h] is the runner's place in run_pending_jobs and the job_id and
\* delay it got from lock_next_job_delay; a runner whose thread has ended is Done.
\* Jobs are added and deleted meanwhile by any handle.
Done == [job_id |-> NULL, state |-> "done"]

\* Runner.stop(): another thread sets the runner's stop event.
RunnerStop(h) ==
    /\ ~stop_ev[h]
    /\ stop_ev' = [stop_ev EXCEPT ![h] = TRUE]
    /\ UNCHANGED <<job, sqlite_sequence, writer, pc, call, locks, last, worker, drained,
                   held, schema, migrator, completed_by, migrators>>

\* "while not self._stop_ev.is_set()": the loop ends, and the thread with it.
RunnerExit(h) ==
    /\ worker[h] = NoJob
    /\ pc[h] = "idle"
    /\ stop_ev[h]
    /\ worker' = [worker EXCEPT ![h] = Done]
    /\ UNCHANGED <<job, sqlite_sequence, writer, pc, call, locks, last, drained, objects>>

\* "job_delay = scheduler.lock_next_job_delay()": the call begins.
RunnerLock(h, t) ==
    /\ worker[h] = NoJob
    /\ ~stop_ev[h]
    /\ Begin(h, "lock_next_job_delay", NULL, NULL, t)

\* The call returns: "if job_delay is None: break", else the runner enters
\* _failsafe_unlock and _wait_to_run_job with the job_id and the delay.
RunnerLocked(h) ==
    /\ worker[h] = NoJob
    /\ CommitTransaction(h)
    /\ worker' = [worker EXCEPT ![h] = IF call[h].ret = None THEN Done
                                       ELSE [job_id |-> call[h].ret.id,
                                             state |-> "waiting",
                                             delay |-> call[h].ret.delay]]
    /\ UNCHANGED <<drained, objects>>

\* lock_next_job_delay raises: nothing was locked, and the error ends the thread.
RunnerLockRaises(h) ==
    /\ worker[h] = NoJob
    /\ pc[h] \in {"select", "update", "commit"}
    /\ EndTransaction(h)
    /\ last' = Raised(call[h].op, h, CallArgs(call[h]), "OperationalError")
    /\ pc' = [pc EXCEPT ![h] = "idle"]
    /\ call' = [call EXCEPT ![h] = NoCall]
    /\ worker' = [worker EXCEPT ![h] = Done]
    /\ UNCHANGED <<job, sqlite_sequence, locks, drained, objects>>

\* _wait_to_run_job: "if delay > 0: if self._stop_ev.wait(delay): return".  A stop
\* requested by then sends the runner back to the head of the loop; otherwise the
\* delay passes.
RunnerWait(h) ==
    /\ worker[h].state = "waiting"
    /\ worker' = [worker EXCEPT ![h] = IF @.delay > 0 /\ stop_ev[h] THEN NoJob
                                       ELSE [@ EXCEPT !.state = "fetch"]]
    /\ UNCHANGED <<job, sqlite_sequence, writer, pc, call, locks, last, drained, objects>>

\* "job = scheduler.get_job_by_id(job_id)": a job deleted meanwhile is skipped.
RunnerFetch(h) ==
    /\ worker[h].state = "fetch"
    /\ AutocommitRead(h)
    /\ LET j == get_job_by_id(job, worker[h].job_id)
       IN  /\ last' = Returned("get_job_by_id", h, [job_id |-> worker[h].job_id], j)
           /\ worker' = [worker EXCEPT ![h] = IF j = None THEN NoJob
                                              ELSE [@ EXCEPT !.state = "running"]]
    /\ UNCHANGED <<job, sqlite_sequence, writer, pc, call, locks, drained, objects>>

\* _run_job: the job's work, then "scheduler.complete_job(job.id)".
RunnerComplete(h, t) ==
    /\ worker[h].state = "running"
    /\ AutocommitWrite(h)
    /\ LET id == worker[h].job_id
           r == complete_job(job, id, t)
       IN  /\ job' = r.store
           /\ last' = Returned("complete_job", h, [job_id |-> id, completed_at |-> t],
                               Bool(r.ret))
           /\ completed_by' = [completed_by EXCEPT ![id] = IF r.ret THEN @ \cup {h} ELSE @]
    /\ worker' = [worker EXCEPT ![h].state = "completed"]
    /\ UNCHANGED <<sqlite_sequence, writer, pc, call, locks, drained, held, schema,
                   migrator, stop_ev, migrators>>

\* examples/threads.py: _run_job and _wait_to_run_job return, the with-block is
\* left without an exception, and the runner is back at the head of the loop.
RunnerNext(h) ==
    /\ worker[h].state = "completed"
    /\ worker' = [worker EXCEPT ![h] = NoJob]
    /\ UNCHANGED <<job, sqlite_sequence, writer, pc, call, locks, last, drained, objects>>

\* examples/thread_pool.py: the job's future is done and its callback calls
\* "scheduler.unlock_job(job_id)".
RunnerUnlock(h) ==
    /\ worker[h].state = "completed"
    /\ AutocommitWrite(h)
    /\ LET id == worker[h].job_id
           r == unlock_job(job, id)
       IN  /\ job' = r.store
           /\ locks' = [n \in DOMAIN locks |-> IF n = id THEN 0 ELSE locks[n]]
           /\ last' = Returned("unlock_job", h, [job_id |-> id], Bool(r.ret))
    /\ worker' = [worker EXCEPT ![h] = NoJob]
    /\ UNCHANGED <<sqlite_sequence, writer, pc, call, drained, objects>>

\* _failsafe_unlock: an exception inside the with-block (while waiting, fetching
\* or running): "scheduler.unlock_job(job_id); raise", which ends the thread.
RunnerFailsafe(h) ==
    /\ worker[h].state \in {"waiting", "fetch", "running", "completed"}
    /\ AutocommitWrite(h)
    /\ LET id == worker[h].job_id
           r == unlock_job(job, id)
       IN  /\ job' = r.store
           /\ locks' = [n \in DOMAIN locks |-> IF n = id THEN 0 ELSE locks[n]]
           /\ last' = Returned("unlock_job", h, [job_id |-> id], Bool(r.ret))
    /\ worker' = [worker EXCEPT ![h] = Done]
    /\ UNCHANGED <<sqlite_sequence, writer, pc, call, drained, objects>>

NextRun ==
    \E h \in Handles :
        \/ \E d \in Data, s \in OptTime : \E t \in Time : AddJob(h, d, NULL, s, NULL, t)
        \/ \E id \in JobIds : DeleteJob(h, id)
        \/ RunnerStop(h)
        \/ RunnerExit(h)
        \/ \E t \in Time : RunnerLock(h, t)
        \/ SelectLockNext(h)
        \/ Update(h)
        \/ RunnerLocked(h)
        \/ RunnerLockRaises(h)
        \/ RunnerWait(h)
        \/ RunnerFetch(h)
        \/ \E t \in Time : RunnerComplete(h, t)
        \/ RunnerNext(h)
        \/ RunnerUnlock(h)
        \/ RunnerFailsafe(h)
SpecRun == Init /\ [][NextRun]_vars

\* SpecMigrate: connect() runs run_migrations on a storage in any of its starting
\* conditions, again and again; between the runs an opened handle adds jobs.
\* `migrator` keeps, for the run in progress or the last one, the storage it
\* started from, the version it detected and the scripts it executed.
InitMigrate ==
    /\ job = [id \in {} |-> None]
    /\ sqlite_sequence = 0
    /\ writer = NoHandle
    /\ pc = [h \in Handles |-> "idle"]
    /\ call = [h \in Handles |-> NoCall]
    /\ locks = [id \in {} |-> 0]
    /\ last = Unrecorded
    /\ worker = [h \in Handles |-> NoJob]
    /\ drained = <<>>
    /\ held = [h \in Handles |-> None]
    /\ schema \in StartSchemas
    /\ migrator = NoRun(schema)
    /\ stop_ev = [h \in Handles |-> FALSE]
    /\ completed_by = [id \in JobIds |-> {}]
    /\ migrators = [h \in Handles |-> NotConnected]

\* What run_migrations leaves alone: the job rows and all of the handles' state.
rows == <<job, sqlite_sequence, pc, call, locks, last, worker, drained, held, stop_ev,
          completed_by, migrators>>

\* run_migrations up to the first script.  cls is the class that runs:
\* "Migrator" returns at once on a version it does not know; "_SchedulerMigrator"
\* only logs a warning.  Both then BEGIN and take the scripts to run.
RunMigrations(cls) ==
    /\ migrator.pc = "idle"
    /\ LET version == get_version(schema)
           run == [NoRun(schema) EXCEPT !.cls = cls,
                                        !.detected = version,
                                        !.version = version,
                                        !.start = [schema |-> schema, job |-> job]]
       IN  IF cls = "Migrator" /\ version >= 0 /\ ~version_exists(version)
           THEN migrator' = [run EXCEPT !.result = "returned"]
           ELSE migrator' = [run EXCEPT
                                 !.pc = "migrate",
                                 !.in_tx = TRUE,
                                 !.todo = IF cls = "Migrator" THEN after_version(version)
                                          ELSE get_migrations(version),
                                 !.result = "running"]
    /\ UNCHANGED <<schema, writer, rows>>

\* One turn of the loop: conn.executescript(script).  executescript commits the
\* open transaction before it runs the script, and the connection is in
\* autocommit mode, so the script's statements are committed as they run.
ExecuteScript ==
    /\ migrator.pc = "migrate"
    /\ migrator.todo /= <<>>
    /\ writer = NoHandle
    /\ schema' = executescript(schema, Head(migrator.todo))
    /\ migrator' = [migrator EXCEPT !.version = Head(migrator.todo),
                                    !.todo = Tail(migrator.todo),
                                    !.ran = Append(migrator.ran, Head(migrator.todo)),
                                    !.in_tx = FALSE]
    /\ UNCHANGED <<writer, rows>>

\* After the loop: UPDATE job_schema with the loop variable, which is the last
\* script's version, or the detected version when no script ran.  Inside the
\* transaction the UPDATE waits for COMMIT; after an executescript there is no
\* transaction and it is committed at once.
SetVersion ==
    /\ migrator.pc = "migrate"
    /\ migrator.todo = <<>>
    /\ 1 \in schema.applied
    /\ writer = NoHandle
    /\ IF migrator.in_tx
       THEN /\ writer' = Connecting
            /\ migrator' = [migrator EXCEPT !.pc = "commit", !.update = TRUE]
            /\ UNCHANGED schema
       ELSE /\ schema' = UpdateVersion(schema, migrator.version)
            /\ migrator' = [migrator EXCEPT !.pc = "commit"]
            /\ UNCHANGED writer
    /\ UNCHANGED rows

\* begin(): the with-block is left normally, conn.commit().
CommitMigrations ==
    /\ migrator.pc = "commit"
    /\ schema' = (IF migrator.update THEN UpdateVersion(schema, migrator.version) ELSE schema)
    /\ writer' = NoHandle
    /\ migrator' = [migrator EXCEPT !.pc = "idle", !.in_tx = FALSE, !.update = FALSE,
                                    !.result = "returned"]
    /\ UNCHANGED rows

\* begin(): a script or the UPDATE raises (job_schema missing, a storage
\* failure), conn.rollback(), and the error leaves run_migrations.  The rollback
\* discards what the open transaction holds: an UPDATE not yet committed, and
\* nothing of a script.  The script that raises is taken to have changed nothing.
FailMigrations ==
    /\ migrator.pc \in {"migrate", "commit"}
    /\ writer' = NoHandle
    /\ migrator' = [migrator EXCEPT !.pc = "idle", !.in_tx = FALSE, !.update = FALSE,
                                    !.result = "raised"]
    /\ UNCHANGED <<schema, rows>>

\* An opened handle adds a job: the job table is there and no run is going on.
MigratedAddJob(h, data, created_at, starts_at, expires_at, t) ==
    /\ migrator.pc = "idle"
    /\ 0 \in schema.applied
    /\ AddJob(h, data, created_at, starts_at, expires_at, t)

NextMigrate ==
    \/ \E cls \in {"Migrator", "_SchedulerMigrator"} : RunMigrations(cls)
    \/ ExecuteScript
    \/ SetVersion
    \/ CommitMigrations
    \/ FailMigrations
    \/ \E d \in Data : \E t \in Time : MigratedAddJob("h1", d, NULL, NULL, NULL, t)
SpecMigrate == InitMigrate /\ [][NextMigrate]_vars

\* SpecConnect: two handles open the same storage at the same time, and each
\* connect() runs run_migrations on its own connection while the storage is below
\* the latest version.  The connections are in autocommit mode and executescript
\* commits the transaction begun by begin(), so every statement of a run is
\* committed by itself and the two runs interleave statement by statement.
InitConnect ==
    /\ job = [id \in {} |-> None]
    /\ sqlite_sequence = 0
    /\ writer = NoHandle
    /\ pc = [h \in Handles |-> "idle"]
    /\ call = [h \in Handles |-> NoCall]
    /\ locks = [id \in {} |-> 0]
    /\ last = Unrecorded
    /\ worker = [h \in Handles |-> NoJob]
    /\ drained = <<>>
    /\ held = [h \in Handles |-> None]
    /\ schema \in {s \in StartSchemas : get_version(s) < MaxVersion}
    /\ migrator = NoRun(schema)
    /\ stop_ev = [h \in Handles |-> FALSE]
    /\ completed_by = [id \in JobIds |-> {}]
    /\ migrators = [h \in Handles |-> NotConnected]

\* What a run of run_migrations on a connection leaves alone.
others == <<job, sqlite_sequence, writer, pc, call, locks, last, worker, drained, held,
            migrator, stop_ev, completed_by>>

\* "version = self.get_version()", before begin(): RuntimeError when job_schema
\* has no 'version' row, a return on a version that is not known, and else BEGIN
\* and the scripts that come after the version.
ConnectGetVersion(h) ==
    /\ migrators[h].pc = "idle"
    /\ migrators[h].result = "none"
    /\ IF missing_version_key(schema)
       THEN migrators' = [migrators EXCEPT ![h].result = "RuntimeError"]
       ELSE LET version == get_version(schema)
            IN  IF version >= 0 /\ ~version_exists(version)
                THEN migrators' = [migrators EXCEPT ![h].detected = version,
                                                    ![h].result = "returned"]
                ELSE migrators' = [migrators EXCEPT ![h].pc = "migrate",
                                                    ![h].detected = version,
                                                    ![h].version = version,
                                                    ![h].todo = after_version(version)]
    /\ UNCHANGED <<schema, others>>

\* "conn.executescript(script)" for a script other than script 1.
ConnectExecuteScript(h) ==
    /\ migrators[h].pc = "migrate"
    /\ migrators[h].todo /= <<>>
    /\ Head(migrators[h].todo) /= 1
    /\ schema' = executescript(schema, Head(migrators[h].todo))
    /\ migrators' = [migrators EXCEPT ![h].version = Head(migrators[h].todo),
                                      ![h].todo = Tail(migrators[h].todo),
                                      ![h].ran = Append(@, Head(migrators[h].todo))]
    /\ UNCHANGED others

\* executescript of script 1, up to and with "CREATE TABLE IF NOT EXISTS job_schema".
ConnectCreateJobSchema(h) ==
    /\ migrators[h].pc = "migrate"
    /\ migrators[h].todo /= <<>>
    /\ Head(migrators[h].todo) = 1
    /\ migrators[h].stmt = 0
    /\ schema' = create_job_schema(schema)
    /\ migrators' = [migrators EXCEPT ![h].stmt = 1]
    /\ UNCHANGED others

\* executescript of script 1, its last statement: "INSERT OR IGNORE INTO job_schema".
ConnectInsertVersion(h) ==
    /\ migrators[h].pc = "migrate"
    /\ migrators[h].todo /= <<>>
    /\ Head(migrators[h].todo) = 1
    /\ migrators[h].stmt = 1
    /\ schema' = insert_version(schema)
    /\ migrators' = [migrators EXCEPT ![h].stmt = 0,
                                      ![h].version = 1,
                                      ![h].todo = Tail(migrators[h].todo),
                                      ![h].ran = Append(@, 1)]
    /\ UNCHANGED others

\* After the loop: "UPDATE job_schema SET value = ? WHERE key = 'version'" with the
\* loop variable, and conn.commit(); run_migrations returns.
ConnectSetVersion(h) ==
    /\ migrators[h].pc = "migrate"
    /\ migrators[h].todo = <<>>
    /\ schema' = (IF 1 \in schema.applied /\ ~missing_version_key(schema)
                  THEN UpdateVersion(schema, migrators[h].version)
                  ELSE schema)
    /\ migrators' = [migrators EXCEPT ![h].pc = "idle", ![h].result = "returned"]
    /\ UNCHANGED others

NextConnect ==
    \E h \in Handles :
        \/ ConnectGetVersion(h)
        \/ ConnectExecuteScript(h)
        \/ ConnectCreateJobSchema(h)
        \/ ConnectInsertVersion(h)
        \/ ConnectSetVersion(h)
SpecConnect == InitConnect /\ [][NextConnect]_vars

\* ================================================================= claims

\* C1: between two consecutive unlocks of a job, at most one lock call (lock_job,
\* lock_next_job or lock_next_job_delay, from any handle) reports success for it:
\* `locks` counts the successes reported for a row since it was last unlocked.
C1_AtMostOneLockSuccess == \A id \in DOMAIN locks : locks[id] <= 1

\* A job locked by one successful call while another handle's lock_job on it is
\* about to return False.
C1_Witness ==
    \E h \in Handles, id \in DOMAIN locks :
        /\ locks[id] = 1
        /\ pc[h] = "commit"
        /\ call[h].op = "lock_job"
        /\ call[h].job_id = id
        /\ ~call[h].write


\* C2: lock_next_job and lock_next_job_delay are atomic towards every other handle.
\* From the eligibility query to the end of the transaction no step changes the
\* table except the call's own COMMIT, which sets locked_at of the selected row to
\* the call's now; all that time the selected row is present, unlocked, uncompleted
\* and still the one the query selects, and no other handle is locking the same row.
C2_LockNextAtomic ==
    [][\A h \in Handles :
          (pc[h] \in {"update", "commit"}
              /\ call[h].op \in {"lock_next_job", "lock_next_job_delay"}) =>
          LET id == call[h].job_id
          IN  /\ id /= NULL =>
                    /\ id \in DOMAIN job
                    /\ job[id].locked_at = NULL
                    /\ job[id].completed_at = NULL
                    /\ SelectNext(job, call[h].now) = id
                    /\ \A o \in Handles \ {h} :
                           pc[o] \in {"update", "commit"} => call[o].job_id /= id
              /\ \/ job' = job /\ sqlite_sequence' = sqlite_sequence
                 \/ /\ pc[h] = "commit"
                    /\ pc'[h] = "idle"
                    /\ call[h].write
                    /\ job' = [job EXCEPT ![id].locked_at = call[h].now]
      ]_vars

\* lock_next_job_delay is about to deliver one job while another job is held locked
\* by an earlier call.
C2_Witness ==
    \E h \in Handles, o \in DOMAIN locks :
        /\ pc[h] = "commit"
        /\ call[h].op = "lock_next_job_delay"
        /\ call[h].write
        /\ call[h].job_id /= o
        /\ locks[o] = 1

\* C3: two workers that call get_next_job() and then lock_job(id) may both fetch the
\* same unlocked job, and lock_job returns True for at most one of them: no two
\* workers hold the same job, and a job nobody unlocks is locked at most once.
C3_NaiveAtMostOne ==
    /\ \A h \in Handles, o \in Handles :
           (h /= o /\ worker[h].state = "locked" /\ worker[o].state = "locked")
               => worker[h].job_id /= worker[o].job_id
    /\ \A h \in Handles :
           worker[h].state = "locked" =>
               /\ worker[h].job_id \in DOMAIN job
               /\ job[worker[h].job_id].locked_at /= NULL
               /\ locks[worker[h].job_id] = 1

\* Both workers fetched the same job; lock_job returned True to one, False to the other.
C3_Witness ==
    \E h \in Handles, o \in Handles :
        /\ worker[h].state = "locked"
        /\ worker[o].state = "refused"
        /\ worker[h].job_id = worker[o].job_id


\* C4: get_next_job(now) returns the row with the smallest (starts_at, id) among the
\* rows with completed_at absent, (expires_at absent or now < expires_at) and
\* locked_at absent, and returns None exactly when no row qualifies; among equal
\* starts_at the lowest id wins.
C4_GetNextJob ==
    last.op = "get_next_job" =>
        LET now == last.args.now
            qualify == {id \in DOMAIN job :
                           /\ job[id].completed_at = NULL
                           /\ (job[id].expires_at = NULL \/ now < job[id].expires_at)
                           /\ job[id].locked_at = NULL}
        IN  IF qualify = {}
            THEN last.ret = None
            ELSE /\ last.ret /= None
                 /\ last.ret.id \in qualify
                 /\ last.ret = Job(job, last.ret.id)
                 /\ \A o \in qualify \ {last.ret.id} :
                        \/ job[last.ret.id].starts_at < job[o].starts_at
                        \/ /\ job[last.ret.id].starts_at = job[o].starts_at
                           /\ last.ret.id < o

\* get_next_job returned the job inserted second, which starts before the first one,
\* both qualifying.
C4_Witness ==
    /\ last.op = "get_next_job"
    /\ last.ret /= None
    /\ last.ret.id = 2
    /\ 1 \in DOMAIN job
    /\ WhereNext(job[1], last.args.now)
    /\ job[2].starts_at < job[1].starts_at

\* C5: get_next_job_delay(now) is None exactly when get_next_job(now) is None, and
\* otherwise returns (id, d) with id the id of the job get_next_job(now) returns and
\* d = max(0, starts_at - now), never negative.
C5_GetNextJobDelay ==
    last.op = "get_next_job_delay" =>
        LET now == last.args.now
            next == get_next_job(job, now)
        IN  /\ (last.ret = None) <=> (next = None)
            /\ next /= None =>
                   /\ last.ret.id = next.id
                   /\ last.ret.delay = (IF next.starts_at > now THEN next.starts_at - now ELSE 0)
                   /\ last.ret.delay >= 0

\* get_next_job_delay returned delay 0 for a job whose start lies in the past.
C5_Witness ==
    /\ last.op = "get_next_job_delay"
    /\ last.ret /= None
    /\ last.ret.delay = 0
    /\ job[last.ret.id].starts_at < last.args.now


\* C6: starting from N eligible jobs and with no unlock in between, N successive
\* lock_next_job calls, from one handle or several, deliver every job exactly once
\* in ascending (starts_at, id) order, each with locked_at equal to the call's now,
\* and every later call returns None.  `start` is the table before the first call;
\* the jobs are the rows eligible then, at the now of every call.
C6_DrainInOrder ==
    LET calls == 1..Len(drained)
        delivered == {drained[k].ret.id : k \in {i \in calls : drained[i].ret /= None}}
        start == [id \in DOMAIN job |->
                     IF id \in delivered THEN [job[id] EXCEPT !.locked_at = NULL]
                     ELSE job[id]]
        eligible(now) == {id \in DOMAIN start :
                             /\ start[id].completed_at = NULL
                             /\ (start[id].expires_at = NULL \/ now < start[id].expires_at)
                             /\ start[id].locked_at = NULL}
        before(a, b) == \/ start[a].starts_at < start[b].starts_at
                        \/ start[a].starts_at = start[b].starts_at /\ a < b
    IN  (drained /= <<>> /\ \A i \in calls : eligible(drained[i].now) = eligible(drained[1].now)) =>
            LET jobs == eligible(drained[1].now)
            IN  \A i \in calls :
                    IF i <= Cardinality(jobs)
                    THEN /\ drained[i].ret /= None
                         /\ drained[i].ret.id \in jobs
                         /\ Cardinality({o \in jobs : before(o, drained[i].ret.id)}) = i - 1
                         /\ drained[i].ret =
                                [Job(start, drained[i].ret.id) EXCEPT !.locked_at = drained[i].now]
                         /\ job[drained[i].ret.id].locked_at = drained[i].now
                    ELSE drained[i].ret = None

\* Two jobs with equal starts_at were delivered to two different handles, lowest id
\* first, and a third call returned None.
C6_Witness ==
    /\ Len(drained) = 3
    /\ drained[1].ret /= None
    /\ drained[2].ret /= None
    /\ drained[3].ret = None
    /\ drained[1].h /= drained[2].h
    /\ drained[1].ret.starts_at = drained[2].ret.starts_at
    /\ drained[1].ret.id < drained[2].ret.id


\* C7: lock_job(id) returns True only when the row exists and is unlocked, and then
\* sets locked_at; on a locked or absent job it returns False and changes nothing.
\* After a True the row is locked, so the next call returns False and the stored
\* locked_at stays the value written by the first call.
C7_LockJob ==
    (last.op = "lock_job" /\ last.raised = "") =>
        LET id == last.args.job_id
            free == id \in DOMAIN last.job /\ last.job[id].locked_at = NULL
        IN  /\ pc[last.h] = "idle"
            /\ last.ret = Bool(free)
            /\ job = (IF free
                        THEN [last.job EXCEPT ![id].locked_at = last.args.locked_at]
                        ELSE last.job)
            /\ free => job[id].locked_at /= NULL

\* lock_job returned False on a job locked earlier at another time, which it kept.
C7_Witness ==
    /\ last.op = "lock_job"
    /\ last.raised = ""
    /\ last.ret = Bool(FALSE)
    /\ last.args.job_id \in DOMAIN job
    /\ job[last.args.job_id].locked_at /= NULL
    /\ job[last.args.job_id].locked_at /= last.args.locked_at

\* C8: unlock_job(id) is idempotent.  It returns True whenever the row exists,
\* locked or not, and False when the row is absent; after it locked_at is absent;
\* a second call returns the same result and leaves the same state; and an
\* uncompleted, unexpired job is selectable by get_next_job again.
C8_UnlockJob ==
    last.op = "unlock_job" =>
        LET id == last.args.job_id
            again == unlock_job(job, id)
        IN  /\ last.ret = Bool(id \in DOMAIN last.job)
            /\ job = (IF id \in DOMAIN last.job
                        THEN [last.job EXCEPT ![id].locked_at = NULL]
                        ELSE last.job)
            /\ id \in DOMAIN last.job => job[id].locked_at = NULL
            /\ Bool(again.ret) = last.ret
            /\ again.store = job
            /\ \A now \in Time :
                   (/\ id \in DOMAIN last.job
                    /\ last.job[id].completed_at = NULL
                    /\ (last.job[id].expires_at = NULL \/ now < last.job[id].expires_at)) =>
                       LET next == get_next_job(job, now)
                       IN  /\ next /= None
                           /\ \/ next.id = id
                              \/ next.starts_at < job[id].starts_at
                              \/ next.starts_at = job[id].starts_at /\ next.id < id

\* unlock_job returned True and the job is the one get_next_job returns.
C8_Witness ==
    /\ last.op = "unlock_job"
    /\ last.ret = Bool(TRUE)
    /\ Cardinality(DOMAIN job) = 2
    /\ get_next_job(job, 0) /= None
    /\ get_next_job(job, 0).id = last.args.job_id

\* C9: count_pending_jobs(now) is the number of rows with completed_at absent and
\* (expires_at absent or now < expires_at), whatever their lock state: a lock or an
\* unlock never changes the count, and a locked, uncompleted, unexpired job is
\* counted although get_next_job does not return it.
C9_CountPendingJobs ==
    LET pending(store, now) ==
            {id \in DOMAIN store :
                /\ store[id].completed_at = NULL
                /\ (store[id].expires_at = NULL \/ now < store[id].expires_at)}
    IN  /\ last.op = "count_pending_jobs" =>
               /\ last.ret = Count(Cardinality(pending(last.job, last.args.now)))
               /\ \A id \in pending(last.job, last.args.now) :
                      last.job[id].locked_at /= NULL =>
                          LET next == get_next_job(last.job, last.args.now)
                          IN  next = None \/ next.id /= id
        /\ last.op \in LockOps \cup {"unlock_job"} =>
               \A now \in Time :
                   /\ pending(job, now) = pending(last.job, now)
                   /\ count_pending_jobs(job, now) = count_pending_jobs(last.job, now)

\* count_pending_jobs counted a locked job while get_next_job returns None.
C9_Witness ==
    /\ last.op = "count_pending_jobs"
    /\ last.ret = Count(1)
    /\ get_next_job(job, last.args.now) = None
    /\ \E id \in DOMAIN job : job[id].locked_at /= NULL /\ WherePending(job[id], last.args.now)

\* C10: complete_job(id) returns False and changes nothing when the row is absent,
\* and returns True when the row exists, completed or not, writing completed_at.
\* No operation makes a stored completed_at absent again, and a completed job is
\* never returned by get_next_job, get_next_job_delay, lock_next_job or
\* lock_next_job_delay nor counted by count_pending_jobs.
C10_CompleteJob ==
    /\ last.op = "complete_job" =>
           LET id == last.args.job_id
           IN  /\ last.ret = Bool(id \in DOMAIN last.job)
               /\ job = (IF id \in DOMAIN last.job
                            THEN [last.job EXCEPT ![id].completed_at = last.args.completed_at]
                            ELSE last.job)
               /\ id \in DOMAIN last.job => job[id].completed_at /= NULL
    /\ \A id \in DOMAIN last.job \cap DOMAIN job :
           last.job[id].completed_at /= NULL => job[id].completed_at /= NULL
    /\ (/\ last.op \in {"get_next_job", "get_next_job_delay",
                         "lock_next_job", "lock_next_job_delay"}
        /\ last.raised = ""
        /\ last.ret /= None) =>
           /\ last.ret.id \in DOMAIN last.job
           /\ last.job[last.ret.id].completed_at = NULL
    /\ last.op = "count_pending_jobs" =>
           last.ret.int <= Cardinality({id \in DOMAIN last.job : last.job[id].completed_at = NULL})

\* complete_job returned True for a job that was never locked and does not expire;
\* get_next_job returns None and nothing is pending.
C10_Witness ==
    /\ last.op = "complete_job"
    /\ last.ret = Bool(TRUE)
    /\ job[last.args.job_id].locked_at = NULL
    /\ job[last.args.job_id].expires_at = NULL
    /\ get_next_job(job, MaxTime) = None
    /\ count_pending_jobs(job, MaxTime) = 0

\* C11: delete_expired_jobs(now) removes exactly the rows with completed_at absent,
\* expires_at present and now >= expires_at, whatever their lock state, returns the
\* number removed and leaves every other row unchanged; a completed job is never
\* removed by it.
C11_DeleteExpiredJobs ==
    last.op = "delete_expired_jobs" =>
       LET now == last.args.now
           expired == {id \in DOMAIN last.job :
                          /\ last.job[id].completed_at = NULL
                          /\ last.job[id].expires_at /= NULL
                          /\ now >= last.job[id].expires_at}
       IN  /\ DOMAIN job = DOMAIN last.job \ expired
           /\ \A id \in DOMAIN job : job[id] = last.job[id]
           /\ last.ret = Count(Cardinality(expired))
           /\ \A id \in DOMAIN last.job : last.job[id].completed_at /= NULL => id \in DOMAIN job

\* delete_expired_jobs removed one job and kept a completed one whose expires_at
\* has passed.
C11_Witness ==
    /\ last.op = "delete_expired_jobs"
    /\ last.ret = Count(1)
    /\ \E id \in DOMAIN job :
           /\ job[id].completed_at /= NULL
           /\ job[id].expires_at /= NULL
           /\ last.args.now >= job[id].expires_at

\* C12: delete_completed_jobs() removes exactly the rows whose completed_at is set,
\* whatever their lock state and expiry, returns the number removed and leaves
\* every uncompleted row unchanged.
C12_DeleteCompletedJobs ==
    last.op = "delete_completed_jobs" =>
       LET completed == {id \in DOMAIN last.job : last.job[id].completed_at /= NULL}
       IN  /\ DOMAIN job = DOMAIN last.job \ completed
           /\ \A id \in DOMAIN job : job[id] = last.job[id]
           /\ last.ret = Count(Cardinality(completed))

\* delete_completed_jobs removed one job and kept an uncompleted job that is
\* locked and expired.
C12_Witness ==
    /\ last.op = "delete_completed_jobs"
    /\ last.ret = Count(1)
    /\ \E id \in DOMAIN job :
           /\ job[id].completed_at = NULL
           /\ job[id].locked_at /= NULL
           /\ job[id].expires_at = 0

\* C13: delete_job(id) returns True and removes the row when it exists, and returns
\* False without error when it does not; deletion is terminal: an id whose row is
\* gone never has a row again, and get_job_by_id, lock_job, unlock_job, complete_job
\* and delete_job on it return None / False.
C13_DeleteJob ==
    /\ last.op = "delete_job" =>
           LET id == last.args.job_id
           IN  /\ last.raised = ""
               /\ last.ret = Bool(id \in DOMAIN last.job)
               /\ DOMAIN job = DOMAIN last.job \ {id}
               /\ \A o \in DOMAIN job : job[o] = last.job[o]
    /\ \A id \in 1..last.sqlite_sequence : id \notin DOMAIN last.job => id \notin DOMAIN job
    /\ (/\ last.op \in {"get_job_by_id", "lock_job", "unlock_job",
                         "complete_job", "delete_job"}
        /\ last.raised = ""
        /\ last.args.job_id \in 1..last.sqlite_sequence
        /\ last.args.job_id \notin DOMAIN last.job) =>
           last.ret = (IF last.op = "get_job_by_id" THEN None ELSE Bool(FALSE))

\* delete_job returned False for an id that was assigned once and has no row.
C13_Witness ==
    /\ last.op = "delete_job"
    /\ last.ret = Bool(FALSE)
    /\ last.args.job_id <= sqlite_sequence

\* C14: the ids add_job assigns are strictly increasing over the whole history of
\* the storage and never reused.  sqlite_sequence is the largest id ever assigned:
\* it never decreases, no row has a larger id, and a new row's id is larger than it,
\* whatever was deleted before.
C14_IdsNeverReused ==
    /\ \A id \in DOMAIN last.job : id <= last.sqlite_sequence
    /\ sqlite_sequence >= last.sqlite_sequence
    /\ \A id \in DOMAIN job \ DOMAIN last.job : id > last.sqlite_sequence /\ id <= sqlite_sequence
    /\ (last.op = "add_job" /\ last.raised = "") =>
           /\ last.ret.id > last.sqlite_sequence
           /\ last.ret.id \in DOMAIN job \ DOMAIN last.job
           /\ \A id \in DOMAIN last.job : last.ret.id > id

\* add_job returned id 2 into a table emptied by deleting job 1.
C14_Witness ==
    /\ last.op = "add_job"
    /\ last.raised = ""
    /\ last.ret.id = 2
    /\ DOMAIN job = {2}

\* C15: add_job and add_job_from_now with starts_at < created_at or with
\* expires_at < starts_at fail with a constraint violation (IntegrityError) and
\* leave the store as it was: no row is added and no id is used up.
C15_AddJobRejected ==
    /\ (/\ last.op = "add_job"
        /\ \/ last.args.starts_at < last.args.created_at
           \/ /\ last.args.expires_at /= NULL
              /\ last.args.expires_at < last.args.starts_at) =>
           /\ last.raised = "IntegrityError"
           /\ job = last.job
           /\ sqlite_sequence = last.sqlite_sequence
    /\ (/\ last.op = "add_job_from_now"
        /\ \/ last.args.starts_after < 0
           \/ /\ last.args.expires_after /= NULL
              /\ last.args.expires_after < last.args.starts_after) =>
           /\ last.raised = "IntegrityError"
           /\ job = last.job
           /\ sqlite_sequence = last.sqlite_sequence

\* add_job was refused for expires_at < starts_at on a table that holds a row; the
\* next id is still unused.
C15_Witness ==
    /\ last.op = "add_job"
    /\ last.raised = "IntegrityError"
    /\ last.args.created_at <= last.args.starts_at
    /\ last.args.expires_at /= NULL
    /\ last.args.expires_at < last.args.starts_at
    /\ DOMAIN job = {1}
    /\ sqlite_sequence = 1

\* C16: add_job with created_at <= starts_at <= expires_at (or expires_at absent)
\* succeeds and returns a Job with the given fields and completed_at and locked_at
\* absent; get_job_by_id of the new id returns an equal Job.  add_job_from_now
\* stores starts_at = created_at + starts_after and expires_at = created_at +
\* expires_after (absent when expires_after is).
C16_AddJobRoundTrip ==
    /\ (/\ last.op = "add_job"
        /\ last.args.created_at <= last.args.starts_at
        /\ \/ last.args.expires_at = NULL
           \/ last.args.starts_at <= last.args.expires_at) =>
           /\ last.raised = ""
           /\ last.ret.id \notin DOMAIN last.job
           /\ last.ret = [id |-> last.ret.id,
                           data |-> last.args.data,
                           created_at |-> last.args.created_at,
                           starts_at |-> last.args.starts_at,
                           expires_at |-> last.args.expires_at,
                           completed_at |-> NULL,
                           locked_at |-> NULL]
           /\ get_job_by_id(job, last.ret.id) = last.ret
           /\ \A id \in DOMAIN last.job : id \in DOMAIN job /\ job[id] = last.job[id]
    /\ (/\ last.op = "add_job_from_now"
        /\ last.args.starts_after >= 0
        /\ \/ last.args.expires_after = NULL
           \/ last.args.starts_after <= last.args.expires_after) =>
           /\ last.raised = ""
           /\ last.ret.id \notin DOMAIN last.job
           /\ last.ret = [id |-> last.ret.id,
                           data |-> last.args.data,
                           created_at |-> last.args.created_at,
                           starts_at |-> last.args.created_at + last.args.starts_after,
                           expires_at |-> IF last.args.expires_after = NULL THEN NULL
                                          ELSE last.args.created_at
                                                   + last.args.expires_after,
                           completed_at |-> NULL,
                           locked_at |-> NULL]
           /\ get_job_by_id(job, last.ret.id) = last.ret

\* add_job_from_now with created_at 1, starts_after 0 and expires_after 0 stored a
\* job starting and expiring at 1.
C16_Witness ==
    /\ last.op = "add_job_from_now"
    /\ last.raised = ""
    /\ last.args.created_at = 1
    /\ last.args.expires_after = 0
    /\ job[last.ret.id].starts_at = 1
    /\ job[last.ret.id].expires_at = 1

\* C17: every by-id operation (get_job_by_id, lock_job, unlock_job, complete_job,
\* delete_job) on an id that has no row, because none was ever inserted or because
\* some handle deleted it, returns None / False, raises nothing and leaves the
\* store unchanged.  For the single-statement methods this is their result on the
\* table of every reachable state; lock_job takes its "row is None" return and
\* never reaches its UPDATE.
C17_ByIdOnMissingRow ==
    \A id \in JobIds \ DOMAIN job :
        /\ get_job_by_id(job, id) = None
        /\ unlock_job(job, id) = [store |-> job, ret |-> FALSE]
        /\ delete_job(job, id) = [store |-> job, ret |-> FALSE]
        /\ \A t \in Time : complete_job(job, id, t) = [store |-> job, ret |-> FALSE]
        /\ \A h \in Handles :
               (pc[h] \in {"update", "commit"} /\ call[h].op = "lock_job" /\ call[h].job_id = id) =>
                   /\ pc[h] = "commit"
                   /\ call[h].ret = Bool(FALSE)
                   /\ ~call[h].write

\* lock_job is about to return False for the id of a deleted row.
C17_Witness ==
    \E h \in Handles :
        /\ pc[h] = "commit"
        /\ call[h].op = "lock_job"
        /\ call[h].job_id \notin DOMAIN job
        /\ call[h].job_id <= sqlite_sequence
        /\ call[h].ret = Bool(FALSE)

\* C18: a lock transaction (lock_job, lock_next_job, lock_next_job_delay) that fails
\* part-way rolls back completely.  A row's locked_at is set only by a lock call
\* that returns success for that row to its caller, so every locked row has one
\* reported success; a lock call that raised or returned False / None left the
\* table as it was.
C18_LockRollsBack ==
    /\ \A id \in DOMAIN job : job[id].locked_at /= NULL => locks[id] = 1
    /\ (/\ last.op \in LockOps
        /\ \/ last.raised /= ""
           \/ last.ret = None
           \/ last.ret = Bool(FALSE)) => job = last.job
    /\ \A id \in DOMAIN last.job \cap DOMAIN job :
           (last.job[id].locked_at = NULL /\ job[id].locked_at /= NULL) =>
               /\ last.op \in LockOps
               /\ last.raised = ""
               /\ last.ret /= None
               /\ last.ret /= Bool(FALSE)
               /\ id = (IF last.op = "lock_job" THEN last.args.job_id ELSE last.ret.id)

\* lock_next_job raised with a job there to lock; the job is still unlocked.
C18_Witness ==
    /\ last.op = "lock_next_job"
    /\ last.raised = "OperationalError"
    /\ get_next_job(job, last.args.now) /= None
    /\ locks[get_next_job(job, last.args.now).id] = 0

\* C19: expiry is inclusive of the expiry instant.  An uncompleted job with
\* expires_at = e is pending (may be returned by get_next_job and
\* get_next_job_delay, is counted by count_pending_jobs) for every now < e and is
\* not pending for every now >= e, now = e included.
C19_ExpiryInclusive ==
    LET now == last.args.now
        open == {id \in DOMAIN job : job[id].completed_at = NULL}
    IN  /\ last.op \in {"get_next_job", "get_next_job_delay"} =>
               /\ last.ret /= None =>
                      \/ job[last.ret.id].expires_at = NULL
                      \/ now < job[last.ret.id].expires_at
               /\ \A id \in open :
                      (/\ job[id].locked_at = NULL
                       /\ job[id].expires_at /= NULL
                       /\ now < job[id].expires_at) => last.ret /= None
        /\ last.op = "count_pending_jobs" =>
               last.ret = Count(Cardinality({id \in open : job[id].expires_at = NULL})
                                + Cardinality({id \in open : job[id].expires_at /= NULL
                                                             /\ job[id].expires_at > now}))

\* count_pending_jobs(now) returned 0 and get_next_job(now) returns None with an
\* uncompleted, unlocked job whose expires_at is now.
C19_Witness ==
    /\ last.op = "count_pending_jobs"
    /\ last.ret = Count(0)
    /\ get_next_job(job, last.args.now) = None
    /\ \E id \in DOMAIN job :
           /\ job[id].completed_at = NULL
           /\ job[id].locked_at = NULL
           /\ job[id].expires_at = last.args.now

\* C20 (as the code has it): a job whose starts_at equals its expires_at is never
\* eligible at that instant.  get_next_job(now) does not return it for any
\* now >= starts_at = expires_at, and returns it for now < expires_at when no other
\* uncompleted, unlocked row is there.
C20_ZeroWidthNeverAtInstant ==
    last.op = "get_next_job" =>
        \A id \in DOMAIN job :
            (/\ job[id].completed_at = NULL
             /\ job[id].locked_at = NULL
             /\ job[id].starts_at = job[id].expires_at) =>
                /\ last.args.now >= job[id].expires_at =>
                       (last.ret = None \/ last.ret.id /= id)
                /\ (/\ last.args.now < job[id].expires_at
                    /\ \A o \in DOMAIN job \ {id} :
                           job[o].completed_at /= NULL \/ job[o].locked_at /= NULL) =>
                       last.ret = Job(job, id)

\* get_next_job(now) returned None; the only row is uncompleted and unlocked and
\* starts and expires at now.
C20_Witness ==
    /\ last.op = "get_next_job"
    /\ last.ret = None
    /\ \E id \in DOMAIN job :
           /\ DOMAIN job = {id}
           /\ job[id].completed_at = NULL
           /\ job[id].locked_at = NULL
           /\ job[id].starts_at = last.args.now
           /\ job[id].expires_at = last.args.now

\* C20 as stated: get_next_job(now) with now = starts_at = expires_at returns the
\* job (here: when no other uncompleted, unlocked row is there).
C20_EligibleAtInstant ==
    last.op = "get_next_job" =>
        \A id \in DOMAIN job :
            (/\ job[id].completed_at = NULL
             /\ job[id].locked_at = NULL
             /\ job[id].starts_at = last.args.now
             /\ job[id].expires_at = last.args.now
             /\ \A o \in DOMAIN job \ {id} :
                    job[o].completed_at /= NULL \/ job[o].locked_at /= NULL) =>
                last.ret = Job(job, id)

\* C21: every stored job satisfies created_at <= starts_at and, when expires_at
\* is set, starts_at <= expires_at; and no step changes the data, created_at,
\* starts_at or expires_at of a row that is stored before and after it (rows come
\* only from add_job and leave only by the deletes).
C21_RowsKeepConstraints ==
    [][/\ \A id \in DOMAIN job' :
              /\ job'[id].created_at <= job'[id].starts_at
              /\ job'[id].expires_at = NULL \/ job'[id].starts_at <= job'[id].expires_at
       /\ \A id \in DOMAIN job \cap DOMAIN job' :
              /\ job'[id].data = job[id].data
              /\ job'[id].created_at = job[id].created_at
              /\ job'[id].starts_at = job[id].starts_at
              /\ job'[id].expires_at = job[id].expires_at
      ]_vars

\* A row created, started and expiring at time 1 has been locked and completed at
\* time 0, and a second row was added after it.
C21_Witness ==
    \E id \in DOMAIN job :
        /\ job[id].created_at = 1
        /\ job[id].starts_at = 1
        /\ job[id].expires_at = 1
        /\ job[id].locked_at = 0
        /\ job[id].completed_at = 0
        /\ id + 1 \in DOMAIN job

\* C22: locks have no lease or timeout.  A locked row keeps its locked_at through
\* every step of every handle, at any time value, until unlock_job clears it or
\* the row is deleted; complete_job, failed lock attempts, rolled back
\* transactions, reads and add_job never clear it.
C22_LockedUntilUnlocked ==
    [][\A id \in DOMAIN job :
           job[id].locked_at /= NULL =>
               \/ id \notin DOMAIN job'
               \/ job'[id].locked_at = job[id].locked_at
               \/ /\ job'[id].locked_at = NULL
                  /\ locks[id] = 1
                  /\ locks'[id] = 0
                  /\ pc' = pc
                  /\ job' = [job EXCEPT ![id].locked_at = NULL]
      ]_vars

\* A row locked at time 0 has been completed at time 1 and is still locked, while
\* the other handle's lock_job on it, called with time 1, is about to return False.
C22_Witness ==
    \E id \in DOMAIN job :
        /\ job[id].locked_at = 0
        /\ job[id].completed_at = 1
        /\ \E h \in Handles :
               /\ pc[h] = "commit"
               /\ call[h].op = "lock_job"
               /\ call[h].job_id = id
               /\ call[h].now = 1
               /\ call[h].ret = Bool(FALSE)

\* C23: complete_job changes only completed_at of the given row, so a locked job
\* stays locked after it is completed; unlock_job changes only locked_at of the
\* given row.  Neither adds or removes a row, changes another row, or changes the
\* id sequence.
C23_CompleteAndUnlockFrame ==
    (last.op \in {"complete_job", "unlock_job"}) =>
        LET id == last.args.job_id
        IN  /\ DOMAIN job = DOMAIN last.job
            /\ sqlite_sequence = last.sqlite_sequence
            /\ \A o \in DOMAIN last.job \ {id} : job[o] = last.job[o]
            /\ id \in DOMAIN last.job =>
                   /\ job[id].data = last.job[id].data
                   /\ job[id].created_at = last.job[id].created_at
                   /\ job[id].starts_at = last.job[id].starts_at
                   /\ job[id].expires_at = last.job[id].expires_at
                   /\ last.op = "complete_job" =>
                          /\ job[id].locked_at = last.job[id].locked_at
                          /\ job[id].completed_at = last.args.completed_at
                   /\ last.op = "unlock_job" =>
                          /\ job[id].completed_at = last.job[id].completed_at
                          /\ job[id].locked_at = NULL

\* unlock_job returned True for a row completed at time 1, which is still
\* completed, next to a second row that is completed and still locked.
C23_Witness ==
    /\ last.op = "unlock_job"
    /\ last.ret = Bool(TRUE)
    /\ job[last.args.job_id].completed_at = 1
    /\ \E o \in DOMAIN job \ {last.args.job_id} :
           job[o].locked_at /= NULL /\ job[o].completed_at /= NULL

\* C24: a Job object is a snapshot.  job.complete(), job.lock(), job.unlock() and
\* job.delete() change at most the stored row of job.id and leave every field of
\* the caller's object as it was; the effect shows only in a Job fetched anew with
\* get_job_by_id.
C24_JobIsSnapshot ==
    [][/\ held' /= held =>
              /\ last'.op = "get_job_by_id"
              /\ job' = job
              /\ held'["h1"] = get_job_by_id(job, last'.args.job_id)
       /\ (/\ last'.op \in {"Job.complete", "Job.delete", "Job.unlock", "lock_job"}
           /\ last' /= last) =>
              LET self == held["h1"]
                  fresh == get_job_by_id(job', self.id)
                  done == last'.raised = "" /\ last'.ret = Bool(TRUE)
              IN  /\ held' = held
                  /\ last'.args.job_id = self.id
                  /\ DOMAIN job' \subseteq DOMAIN job
                  /\ \A o \in DOMAIN job \ {self.id} :
                         o \in DOMAIN job' /\ job'[o] = job[o]
                  /\ (last'.op = "Job.complete" /\ done) =>
                         fresh = [Job(job, self.id) EXCEPT
                                      !.completed_at = last'.args.completed_at]
                  /\ (last'.op = "Job.unlock" /\ done) =>
                         fresh = [Job(job, self.id) EXCEPT !.locked_at = NULL]
                  /\ (last'.op = "lock_job" /\ done) =>
                         fresh = [Job(job, self.id) EXCEPT !.locked_at = last'.args.locked_at]
                  /\ (last'.op = "Job.delete" /\ done) => fresh = None
                  /\ ~done => job' = job
      ]_vars

\* The caller locked and then completed the job through its object: the object
\* still shows neither, and get_job_by_id shows both.
C24_Witness ==
    /\ last.op = "Job.complete"
    /\ last.ret = Bool(TRUE)
    /\ held["h1"].completed_at = NULL
    /\ held["h1"].locked_at = NULL
    /\ get_job_by_id(job, held["h1"].id) /= None
    /\ get_job_by_id(job, held["h1"].id).completed_at = 1
    /\ get_job_by_id(job, held["h1"].id).locked_at = 0

\* C25 (as the claim states it): the delay of a Job, read as Job.delay or as
\* get_seconds_until_start(), is max(0, starts_at - queue.time()), never negative,
\* also when the job is overdue.
C25_DelayNeverNegative ==
    last.op \in {"Job.delay", "Job.get_seconds_until_start"} =>
        /\ last.ret = Count(Max(0, held["h1"].starts_at - last.args.time))
        /\ last.ret.int >= 0

\* get_seconds_until_start() was called at time 1 on a job that starts at 0.
C25_Witness ==
    /\ last.op = "Job.get_seconds_until_start"
    /\ last.args.time = 1
    /\ held["h1"].starts_at = 0

\* C26: migration is idempotent.  Every run of run_migrations on a storage that
\* is at the latest known version executes no script, leaves the schema, the
\* stored version and the job rows as they are in each of its steps, and finds
\* the job_schema table its UPDATE needs, so the code raises no error; this holds
\* for every repetition.
C26_MigrationIdempotent ==
    [][(/\ migrator' /= migrator
        /\ get_version(migrator'.start.schema) = MaxVersion) =>
           /\ migrator'.detected = MaxVersion
           /\ migrator'.ran = <<>>
           /\ migrator'.todo = <<>>
           /\ schema' = schema
           /\ schema = migrator'.start.schema
           /\ job' = job
           /\ job = migrator'.start.job
           /\ sqlite_sequence' = sqlite_sequence
           /\ 1 \in schema'.applied
      ]_vars

\* A run of Migrator on a fully migrated storage with two job rows has returned:
\* it executed nothing and the storage is as it was.
C26_Witness ==
    /\ migrator.cls = "Migrator"
    /\ migrator.result = "returned"
    /\ migrator.start.schema = LatestSchema
    /\ migrator.ran = <<>>
    /\ Cardinality(DOMAIN migrator.start.job) = 2
    /\ job = migrator.start.job
    /\ schema = LatestSchema

\* C27 (as the claim states it): migration is all-or-nothing.  When a run of
\* run_migrations ends with an error, whether a script or the final version
\* update failed, the storage is as it was before the run: no effect of an earlier
\* script is left.
C27_MigrationAllOrNothing ==
    migrator.result = "raised" => schema = migrator.start.schema

\* A run on an empty storage has raised after script 0: the job table is there,
\* and no version is stored.
C27_Witness ==
    /\ migrator.result = "raised"
    /\ migrator.start.schema = EmptySchema
    /\ migrator.ran = <<0>>
    /\ schema = Schema({0}, NULL)

\* C28: on a storage whose recorded version is 0 or more and is not a known
\* version, run_migrations executes no script, changes neither the stored
\* version nor the schema nor a job row, and the code raises no error, so that
\* the opening goes on: Migrator returns at once, _SchedulerMigrator finds no
\* script to run and writes the version that is stored.
C28_UnknownVersionLeftAlone ==
    [][(/\ migrator' /= migrator
        /\ migrator'.detected >= 0
        /\ ~version_exists(migrator'.detected)) =>
           /\ migrator'.detected = migrator'.start.schema.version
           /\ migrator'.ran = <<>>
           /\ migrator'.todo = <<>>
           /\ schema' = schema
           /\ schema = migrator'.start.schema
           /\ job' = job
           /\ migrator'.cls = "Migrator" =>
                  /\ migrator'.pc = "idle"
                  /\ migrator'.result = "returned"
           /\ migrator'.cls = "_SchedulerMigrator" => 1 \in schema'.applied
      ]_vars

\* _SchedulerMigrator has run to its end on a storage of version MaxVersion + 1
\* holding a job row, and the stored version is still MaxVersion + 1.
C28_Witness ==
    /\ migrator.cls = "_SchedulerMigrator"
    /\ migrator.result = "returned"
    /\ migrator.detected = MaxVersion + 1
    /\ schema.version = MaxVersion + 1
    /\ migrator.start.job /= <<>>

\* C29: from an empty storage (detected as -1), a pre-versioning storage with a
\* job table and no job_schema (detected as 0) and a storage at a known version,
\* run_migrations executes exactly the scripts with a version above the detected
\* one, each once and in ascending order, and when it returns the stored version
\* is the highest known version.
C29_MigrationsAfterDetected ==
    LET s == migrator.start.schema
        expected == [i \in 1..(MaxVersion - migrator.detected) |-> migrator.detected + i]
    IN  (migrator.cls /= "none" /\ version_exists(migrator.detected)) =>
            /\ migrator.detected = (IF 1 \in s.applied THEN s.version
                                    ELSE IF 0 \in s.applied THEN 0
                                    ELSE -1)
            /\ migrator.ran \o migrator.todo = expected
            /\ migrator.result = "returned" =>
                   /\ migrator.ran = expected
                   /\ schema.version = MaxVersion
                   /\ schema.applied = s.applied \cup (0..MaxVersion)

\* Migrator has returned from a run on a pre-versioning storage with a job row:
\* it executed every script above 0 and the stored version is the highest known.
C29_Witness ==
    /\ migrator.cls = "Migrator"
    /\ migrator.result = "returned"
    /\ migrator.start.schema = Schema({0}, NULL)
    /\ migrator.start.job /= <<>>
    /\ migrator.ran = SubSeq(MIGRATIONS, 3, Len(MIGRATIONS))
    /\ schema = LatestSchema

\* C30 (as the claim states it): a time argument that is passed (created_at,
\* starts_at, completed_at) is used as given, the value 0 included, and the time
\* source is used only when the argument is omitted: an omitted created_at is
\* time_func(), an omitted starts_at is created_at.
C30_TimeArgumentsAsGiven ==
    /\ (last.op \in {"Queue.add_job", "Scheduler.add_job"} /\ last.raised = "") =>
           /\ last.ret.created_at = (IF last.args.created_at = NULL THEN last.args.time
                                     ELSE last.args.created_at)
           /\ last.ret.starts_at = (IF last.args.starts_at = NULL THEN last.ret.created_at
                                    ELSE last.args.starts_at)
           /\ job[last.ret.id].created_at = last.ret.created_at
           /\ job[last.ret.id].starts_at = last.ret.starts_at
    /\ (last.op \in {"Queue.complete_job", "Scheduler.complete_job"}
        /\ last.ret = Bool(TRUE)) =>
           job[last.args.job_id].completed_at =
               (IF last.args.completed_at = NULL THEN last.args.time
                ELSE last.args.completed_at)

\* Scheduler.add_job was called with created_at = 0 while the time source stood
\* at 1, and returned a job.
C30_Witness ==
    /\ last.op = "Scheduler.add_job"
    /\ last.raised = ""
    /\ last.args.created_at = 0
    /\ last.args.time = 1
    /\ last.ret.id \in DOMAIN job

\* C31: lock_next_job(now) and lock_next_job_delay(now) take exactly the job that
\* get_next_job(now) returns in the same state, set locked_at = now on that one
\* row and change nothing else.  lock_next_job returns the snapshot that
\* get_job_by_id returns afterwards (locked_at = now); lock_next_job_delay returns
\* (id, max(0, starts_at - now)); both return None and change nothing when
\* get_next_job(now) returns None.
C31_LockNextIsGetNext ==
    (/\ last.op \in {"lock_next_job", "lock_next_job_delay"}
     /\ last.raised = "") =>
        LET now == last.args.now
            next == get_next_job(last.job, now)
        IN  /\ sqlite_sequence = last.sqlite_sequence
            /\ next = None => (last.ret = None /\ job = last.job)
            /\ next /= None =>
                   /\ job = [last.job EXCEPT ![next.id].locked_at = now]
                   /\ last.op = "lock_next_job" =>
                          /\ last.ret = get_job_by_id(job, next.id)
                          /\ last.ret = [next EXCEPT !.locked_at = now]
                   /\ last.op = "lock_next_job_delay" =>
                          last.ret = [id |-> next.id,
                                       delay |-> Max(0, next.starts_at - now)]

\* lock_next_job(now = 1) returned the later-added of two rows that both start
\* at 0, the first being completed; the row is locked at 1.
C31_Witness ==
    /\ last.op = "lock_next_job"
    /\ last.raised = ""
    /\ last.args.now = 1
    /\ last.ret /= None
    /\ last.ret.id = 2
    /\ last.ret.starts_at = 0
    /\ job[2].locked_at = 1
    /\ 1 \in DOMAIN job
    /\ job[1].starts_at = 0
    /\ job[1].completed_at /= NULL

\* C34: after any Queue operation has returned or raised, its handle has no open
\* transaction and does not hold the storage write lock: the write lock taken by
\* lock_job, lock_next_job and lock_next_job_delay is held only inside the call
\* and is released by the commit or rollback that ends it, so it is never held
\* while the caller is between calls (waiting out a delay).
C34_NoLockBetweenCalls ==
    [][/\ \A h \in Handles :
              /\ pc'[h] = "idle" => (writer' /= h /\ call'[h] = NoCall)
              /\ writer' = h => pc'[h] \in {"select", "update", "commit"}
              /\ (pc[h] /= "idle" /\ pc'[h] = "idle") => (writer = h /\ writer' = NoHandle)
       /\ writer' \in Handles \cup {NoHandle}
      ]_vars

\* One handle is back from a lock call that locked a row and holds nothing, while
\* the other handle is inside its own lock transaction with the write lock.
C34_Witness ==
    /\ pc["h1"] = "idle"
    /\ writer = "h2"
    /\ pc["h2"] = "update"
    /\ \E id \in DOMAIN job : job[id].locked_at /= NULL /\ locks[id] = 1

\* C36: at every reachable table and every now, each uncompleted row is either
\* counted by count_pending_jobs(now) or removed by delete_expired_jobs(now),
\* never both and never neither: the count plus the number delete_expired_jobs(now)
\* returns is the number of uncompleted rows, and running delete_expired_jobs(now)
\* leaves count_pending_jobs(now) as it was.
C36_PendingOrExpired ==
    /\ \A now \in Time :
           LET open == {id \in DOMAIN job : job[id].completed_at = NULL}
               d == delete_expired_jobs(job, now)
           IN  /\ count_pending_jobs(job, now) + d.ret = Cardinality(open)
               /\ count_pending_jobs(d.store, now) = count_pending_jobs(job, now)
               /\ \A id \in open :
                      WherePending(job[id], now) <=> id \in DOMAIN d.store
    /\ last.op = "delete_expired_jobs" =>
           LET now == last.args.now
           IN  /\ count_pending_jobs(last.job, now) + last.ret.int
                      = Cardinality({id \in DOMAIN last.job : last.job[id].completed_at = NULL})
               /\ count_pending_jobs(job, now) = count_pending_jobs(last.job, now)
               /\ Cardinality(DOMAIN job) = Cardinality(DOMAIN last.job) - last.ret.int

\* delete_expired_jobs(now = 1) removed one row and left one that expires at 1
\* but is completed, and nothing is pending at 1.
C36_Witness ==
    /\ last.op = "delete_expired_jobs"
    /\ last.args.now = 1
    /\ last.ret = Count(1)
    /\ count_pending_jobs(job, 1) = 0
    /\ \E id \in DOMAIN job : job[id].expires_at = 1 /\ job[id].completed_at /= NULL

\* C37: lock_job(id) looks only at the row's existence and lock state: it returns
\* True and sets locked_at for every stored row that is not locked, a completed
\* or an expired one included, whereas lock_next_job and lock_next_job_delay
\* never lock a completed or an expired row.
C37_LockJobIgnoresState ==
    /\ (last.op = "lock_job" /\ last.raised = "") =>
           LET id == last.args.job_id
           IN  /\ last.ret = Bool(id \in DOMAIN last.job /\ last.job[id].locked_at = NULL)
               /\ last.ret = Bool(TRUE) =>
                      job = [last.job EXCEPT ![id].locked_at = last.args.locked_at]
    /\ (/\ last.op \in {"lock_next_job", "lock_next_job_delay"}
        /\ last.raised = ""
        /\ last.ret /= None) =>
           LET row == last.job[last.ret.id]
           IN  /\ row.completed_at = NULL
               /\ row.expires_at = NULL \/ last.args.now < row.expires_at
               /\ row.locked_at = NULL
    /\ \A id \in DOMAIN last.job \cap DOMAIN job :
           (/\ last.job[id].locked_at = NULL
            /\ job[id].locked_at /= NULL
            /\ \/ last.job[id].completed_at /= NULL
               \/ last.job[id].expires_at /= NULL /\ job[id].locked_at >= last.job[id].expires_at) =>
               last.op = "lock_job"

\* lock_job(locked_at = 1) returned True for a row that was completed and had
\* expired at 0.
C37_Witness ==
    /\ last.op = "lock_job"
    /\ last.ret = Bool(TRUE)
    /\ last.args.locked_at = 1
    /\ job[last.args.job_id].locked_at = 1
    /\ job[last.args.job_id].completed_at /= NULL
    /\ job[last.args.job_id].expires_at = 0

\* C40: the reads get_job_by_id, get_next_job, get_next_job_delay and
\* count_pending_jobs leave the storage as it is (no row added, removed or
\* changed, no lock taken), and get_job_by_id returns the row of every stored id
\* with its stored fields, whatever its state: completed, expired or locked.
C40_ReadsChangeNothing ==
    (last.op \in {"get_job_by_id", "get_next_job", "get_next_job_delay",
                  "count_pending_jobs"}) =>
        /\ last.raised = ""
        /\ job = last.job
        /\ sqlite_sequence = last.sqlite_sequence
        /\ writer = NoHandle
        /\ pc[last.h] = "idle"
        /\ call[last.h] = NoCall
        /\ last.op = "get_job_by_id" =>
               LET id == last.args.job_id
               IN  /\ id \notin DOMAIN last.job => last.ret = None
                   /\ id \in DOMAIN last.job =>
                          /\ last.ret /= None
                          /\ last.ret.id = id
                          /\ last.ret.data = last.job[id].data
                          /\ last.ret.created_at = last.job[id].created_at
                          /\ last.ret.starts_at = last.job[id].starts_at
                          /\ last.ret.expires_at = last.job[id].expires_at
                          /\ last.ret.completed_at = last.job[id].completed_at
                          /\ last.ret.locked_at = last.job[id].locked_at

\* get_job_by_id returned a row that expired at 0, was locked at 1 and completed
\* at 1.
C40_Witness ==
    /\ last.op = "get_job_by_id"
    /\ last.ret /= None
    /\ last.ret.expires_at = 0
    /\ last.ret.locked_at = 1
    /\ last.ret.completed_at = 1
    /\ job[last.ret.id].completed_at = 1

\* C38 (as the code has it): a lock records no owner.  A locked job is not
\* eligible for get_next_job or lock_next_job and not lockable by lock_job, for
\* any handle, until unlock_job is called for it, and unlock_job releases it
\* whichever handle calls it; no other operation of any handle releases it.
C38_HeldUntilAnyUnlock ==
    /\ [](\A id \in DOMAIN job :
              job[id].locked_at /= NULL =>
                  \A now \in Time :
                      get_next_job(job, now) = None \/ get_next_job(job, now).id /= id)
    /\ [][/\ \A id \in DOMAIN job \cap DOMAIN job' :
                 (job[id].locked_at /= NULL /\ job'[id].locked_at /= job[id].locked_at) =>
                     /\ last'.op = "unlock_job"
                     /\ last'.args.job_id = id
                     /\ job'[id].locked_at = NULL
          /\ (/\ last'.op = "lock_job"
              /\ last'.raised = ""
              /\ last'.args.job_id \in DOMAIN job
              /\ job[last'.args.job_id].locked_at /= NULL) => last'.ret = Bool(FALSE)
          /\ (/\ last'.op = "lock_next_job"
              /\ last'.raised = ""
              /\ last'.ret /= None) => job[last'.ret.id].locked_at = NULL
          /\ (last'.op = "unlock_job" /\ last'.args.job_id \in DOMAIN job) =>
                 job'[last'.args.job_id].locked_at = NULL
         ]_vars

\* Both handles take themselves to hold the same job: the first locked it, an
\* unlock_job from the other handle released it, and the other handle locked it.
C38_Witness ==
    /\ worker["h1"].state = "locked"
    /\ worker["h2"].state = "locked"
    /\ worker["h1"].job_id = worker["h2"].job_id
    /\ job[worker["h1"].job_id].locked_at /= NULL
    /\ job[worker["h1"].job_id].completed_at = NULL

\* C38 (as the claim states it): a handle that locked a job is its only holder
\* until that same handle unlocks it: while it holds the job, the job stays locked
\* and no other handle comes to hold it, whatever the other handles call.
C38_OnlyHolderUntilOwnUnlock ==
    \A h \in Handles :
        (worker[h].state = "locked" /\ worker[h].job_id \in DOMAIN job) =>
            /\ job[worker[h].job_id].locked_at /= NULL
            /\ \A o \in Handles \ {h} :
                   ~(worker[o].state = "locked" /\ worker[o].job_id = worker[h].job_id)

\* C35: no lock call blocks for ever.  With two handles calling lock_job,
\* lock_next_job and lock_next_job_delay concurrently, under fair scheduling
\* every call that was made returns (or raises): a transaction is one SELECT and at
\* most one UPDATE and ends in COMMIT or ROLLBACK, so the write lock is always
\* given back and no handle waits on another for ever.
C35_LockCallsReturn ==
    \A h \in Handles : (worker[h].state \in LockOps) ~> (worker[h] = NoJob)

\* One handle is inside its transaction with the write lock while the other has
\* called lock_next_job and waits at BEGIN IMMEDIATE.
C35_Witness ==
    /\ writer = "h1"
    /\ pc["h1"] = "update"
    /\ worker["h2"].state = "lock_next_job"
    /\ pc["h2"] = "idle"

\* C32: runners that each use their own handle and follow the caller protocol
\* (lock_next_job_delay, wait, fetch the job again by its id, run it,
\* complete_job, unlock) never hold or run the same job at the same time, and no
\* job is completed by more than one runner.
C32_RunnersShareNoJob ==
    /\ \A a \in Handles, b \in Handles :
           /\ a /= b
           /\ worker[a].state \in {"waiting", "fetch", "running", "completed"}
           /\ worker[b].state \in {"waiting", "fetch", "running", "completed"}
           => worker[a].job_id /= worker[b].job_id
    /\ \A id \in JobIds : Cardinality(completed_by[id]) <= 1

\* Both runners hold a job at once: one has completed job 1, the other one is
\* running job 2.
C32_Witness ==
    /\ worker["h1"].state = "completed"
    /\ worker["h1"].job_id = 1
    /\ completed_by[1] = {"h1"}
    /\ worker["h2"].state = "running"
    /\ worker["h2"].job_id = 2
    /\ job[1].locked_at /= NULL
    /\ job[2].locked_at /= NULL

\* C33: every job a runner locked is unlocked again by the time the runner is
\* done with it, on every exit path (normal completion, job deleted during the
\* wait, stop request during the wait, exception while waiting or running): a
\* locked row always belongs to a runner that is still working on it, and no row
\* is locked once all runners have terminated.
C33_UnlockedOnEveryExit ==
    /\ \A id \in DOMAIN job :
           job[id].locked_at /= NULL
           => \E h \in Handles :
                  /\ worker[h].state \in {"waiting", "fetch", "running", "completed"}
                  /\ worker[h].job_id = id
    /\ (\A h \in Handles : worker[h] = Done)
       => \A id \in DOMAIN job : job[id].locked_at = NULL

\* Both runners have terminated after a stop request, and a job that one of them
\* locked is still locked and was never completed.
C33_Witness ==
    /\ \A h \in Handles : worker[h] = Done /\ stop_ev[h]
    /\ \E id \in DOMAIN job :
           /\ job[id].locked_at /= NULL
           /\ job[id].completed_at = NULL
           /\ locks[id] = 1

\* C39: when two handles open the same storage concurrently and both run
\* run_migrations while it is below the latest version, neither run fails, and
\* once both runs are over the stored version is the latest one, although each
\* handle detects the version before it begins its transaction.
C39_ConcurrentMigrationsSucceed ==
    /\ \A h \in Handles : migrators[h].result \in {"none", "returned"}
    /\ (\A h \in Handles : migrators[h].result /= "none")
       => /\ schema.version = MaxVersion
          /\ schema.applied = 0..MaxVersion

\* One run has migrated the storage to the latest version, and the other one
\* failed with RuntimeError when it detected the version.
C39_Witness ==
    /\ migrators["h1"].result = "returned"
    /\ migrators["h1"].ran = <<0, 1, 2>>
    /\ migrators["h2"].result = "RuntimeError"
    /\ schema = LatestSchema

====
